---- MODULE Spec2Model ----
(***************************************************************************)
(* A model of the tree-walking interpreter of bcheidemann/interpreter:     *)
(* the scanner (src/src/lib/scanner.rs), the parser and the runtime value  *)
(* model (src/src/lib/parser.rs), the environment                          *)
(* (src/src/lib/environment.rs) and the interpreter                        *)
(* (src/src/lib/interpreter.rs).                                           *)
(*                                                                         *)
(* Text is a sequence of one-character strings.  A Number is an f32; it is *)
(* modelled as a sign, a class (finite, infinite, NaN) and, when finite,   *)
(* an exact fraction num/den.  The programs the interpreter runs keep      *)
(* every finite number a small dyadic fraction (see F32Exact), on which    *)
(* f32 arithmetic is exact, so the fraction is the f32 value.  In the      *)
(* operator harness the operands are such fractions too; a quotient by a   *)
(* number that is not a power of two is kept as the exact fraction where   *)
(* f32 would round it, and no property reads such a quotient.  A number    *)
(* literal is rounded to the nearest f32 when it is scanned.               *)
(*                                                                         *)
(* Specifications: Spec (the run loop of the interpreter), SpecFailing     *)
(* (the run loop on programs with declarations that abort), SpecOps and    *)
(* SpecUnary (the binary and the unary operators on operands of every      *)
(* variant), SpecScan (scan_tokens on a source text, then                  *)
(* parse_expression on its tokens) and SpecParse (parse on a token         *)
(* sequence); SpecScanFair and SpecParseFair are the last two with weak    *)
(* fairness on the loop, for the termination of the scanner and of the     *)
(* parser.                                                                 *)
(***************************************************************************)
EXTENDS Integers, Sequences, FiniteSets

VARIABLES
    program,      \* Interpreter.program: the declarations submitted so far (in
                  \* the parser specification: the local `program` of
                  \* Parser::parse, the declarations parsed so far)
    current,      \* Interpreter.current: index of the next declaration (0-based)
    environment,  \* Interpreter.environment.variables: name -> LiteralValue
    output,       \* the lines written to stdout, in order
    pc,           \* "idle": no call active; "run": inside Interpreter::run;
                  \* "panic": the process aborted; "ops", "unary": operator
                  \* harness; "scan", "scanned": inside and after
                  \* Scanner::scan_tokens; "parse", "parsed": inside and after
                  \* Parser::parse or parse_expression
    executed,     \* history: the indices evaluate_declaration was called on
    outputBy,     \* history: for each line of output, the index that wrote it
    calls,        \* history: number of evaluate_declarations calls so far
    lhs,          \* operator harness: left operand value
    rhs,          \* operator harness: right operand value
    operator,     \* operator harness: the binary operator applied
    result,       \* operator harness: the value returned ("none" before)
    scanner,      \* the Scanner: [source_chars, tokens, start, current, line]
    scanned,      \* what Scanner::scan_tokens returned ("none" before)
    parser,       \* the Parser: [tokens, current]
    parsed        \* the declarations Parser::parse has collected, and how the
                  \* call ended

vars == <<program, current, environment, output, pc, executed, outputBy, calls,
          lhs, rhs, operator, result, scanner, scanned, parser, parsed>>

history == <<executed, outputBy, calls>>
opsVars == <<lhs, rhs, operator, result>>
frontVars == <<scanner, scanned, parser, parsed>>

----------------------------------------------------------------------------
(* f32 *)

\* the element of a one-element set: in The({e : r \in {call}}) the call is
\* made once and r names what it returned
The(S) == CHOOSE v \in S : TRUE

RECURSIVE GCD(_, _)
GCD(a, b) == IF b = 0 THEN a ELSE GCD(b, a % b)

NaN == [cls |-> "nan", neg |-> FALSE, num |-> 0, den |-> 0]
Inf(neg) == [cls |-> "inf", neg |-> neg, num |-> 1, den |-> 0]
\* the finite f32 (-1)^neg * num/den, in lowest terms; zero keeps its sign
Fin(neg, num, den) ==
    LET g == GCD(num, den)
    IN  [cls |-> "fin", neg |-> neg, num |-> num \div g, den |-> den \div g]

Signed(a) == IF a.neg THEN 0 - a.num ELSE a.num
Abs(i) == IF i < 0 THEN 0 - i ELSE i
IsZero(a) == a.cls = "fin" /\ a.num = 0

\* f32 negation: flips the sign bit (NaN stays NaN)
F32Neg(a) == IF a.cls = "nan" THEN NaN ELSE [a EXCEPT !.neg = ~a.neg]

\* f32 addition, round-to-nearest: an exact zero sum is -0 only for (-0)+(-0)
F32Add(a, b) ==
    IF a.cls = "nan" \/ b.cls = "nan" THEN NaN
    ELSE IF a.cls = "inf"
         THEN IF b.cls = "inf" /\ a.neg # b.neg THEN NaN ELSE a
    ELSE IF b.cls = "inf" THEN b
    ELSE LET s == Signed(a) * b.den + Signed(b) * a.den
         IN  IF s = 0 THEN Fin(a.neg /\ b.neg, 0, 1)
             ELSE Fin(s < 0, Abs(s), a.den * b.den)

F32Sub(a, b) == F32Add(a, F32Neg(b))

F32Mul(a, b) ==
    IF a.cls = "nan" \/ b.cls = "nan" THEN NaN
    ELSE IF a.cls = "inf" \/ b.cls = "inf"
         THEN IF IsZero(a) \/ IsZero(b) THEN NaN ELSE Inf(a.neg # b.neg)
    ELSE Fin(a.neg # b.neg, a.num * b.num, a.den * b.den)

\* f32 division: x/0 is an infinity, 0/0 and inf/inf are NaN
F32Div(a, b) ==
    IF a.cls = "nan" \/ b.cls = "nan" THEN NaN
    ELSE IF a.cls = "inf"
         THEN IF b.cls = "inf" THEN NaN ELSE Inf(a.neg # b.neg)
    ELSE IF b.cls = "inf" THEN Fin(a.neg # b.neg, 0, 1)
    ELSE IF b.num = 0
         THEN IF a.num = 0 THEN NaN ELSE Inf(a.neg # b.neg)
    ELSE Fin(a.neg # b.neg, a.num * b.den, a.den * b.num)

\* f32::partial_cmp: "None" when either side is NaN; -0 equals +0
F32Cmp(a, b) ==
    IF a.cls = "nan" \/ b.cls = "nan" THEN "None"
    ELSE LET ra == IF a.cls = "inf" THEN (IF a.neg THEN 0 - 1 ELSE 1) ELSE 0
             rb == IF b.cls = "inf" THEN (IF b.neg THEN 0 - 1 ELSE 1) ELSE 0
             x  == IF ra # 0 \/ rb # 0 THEN ra ELSE Signed(a) * b.den
             y  == IF ra # 0 \/ rb # 0 THEN rb ELSE Signed(b) * a.den
         IN  IF x < y THEN "Less" ELSE IF x > y THEN "Greater" ELSE "Equal"

\* a conversion that rounds to the nearest integer instead of truncating
AsUsizeRounding(a) ==
    IF a.cls = "nan" \/ a.neg THEN [max |-> FALSE, n |-> 0]
    ELSE IF a.cls = "inf" THEN [max |-> TRUE, n |-> 0]
    ELSE [max |-> FALSE, n |-> (2 * a.num + a.den) \div (2 * a.den)]

\* `value as usize`: truncates toward zero and saturates; NaN and every
\* negative value give 0, +infinity gives usize::MAX (max |-> TRUE)
AsUsize(a) ==
    IF a.cls = "nan" \/ a.neg THEN [max |-> FALSE, n |-> 0]
    ELSE IF a.cls = "inf" THEN [max |-> TRUE, n |-> 0]
    ELSE [max |-> FALSE, n |-> a.num \div a.den]

----------------------------------------------------------------------------
(* text and formatting *)

Digits == <<"0", "1", "2", "3", "4", "5", "6", "7", "8", "9">>

\* the printable ASCII characters in code order: 32 (space) to 95 (_), and
\* 97 (a) to 126 (~)
PrintableLow ==
    <<" ", "!", "\"", "#", "$", "%", "&", "'", "(", ")", "*", "+", ",", "-",
      ".", "/", "0", "1", "2", "3", "4", "5", "6", "7", "8", "9", ":", ";",
      "<", "=", ">", "?", "@", "A", "B", "C", "D", "E", "F", "G", "H", "I",
      "J", "K", "L", "M", "N", "O", "P", "Q", "R", "S", "T", "U", "V", "W",
      "X", "Y", "Z", "[", "\\", "]", "^", "_">>
PrintableHigh ==
    <<"a", "b", "c", "d", "e", "f", "g", "h", "i", "j", "k", "l", "m", "n",
      "o", "p", "q", "r", "s", "t", "u", "v", "w", "x", "y", "z", "{", "|",
      "}", "~">>

\* the code of a character: text is ordered by it
CharCode(c) ==
    IF \E i \in 1..Len(PrintableLow) : PrintableLow[i] = c
    THEN 31 + (CHOOSE i \in 1..Len(PrintableLow) : PrintableLow[i] = c)
    ELSE 96 + (CHOOSE i \in 1..Len(PrintableHigh) : PrintableHigh[i] = c)

\* the decimal digits of a natural number
RECURSIVE NatText(_)
NatText(n) == IF n < 10 THEN <<Digits[n + 1]>>
              ELSE NatText(n \div 10) \o <<Digits[(n % 10) + 1]>>

\* the decimal digits of the fraction r/den, 0 <= r < den (den divides a
\* power of ten for every number of the model, so this ends)
RECURSIVE FracText(_, _)
FracText(r, den) ==
    IF r = 0 THEN <<>>
    ELSE <<Digits[((r * 10) \div den) + 1]>> \o FracText((r * 10) % den, den)

\* format!("{value}") of an f32 (Display): no exponent, no trailing ".0"
F32Display(a) ==
    IF a.cls = "nan" THEN <<"N", "a", "N">>
    ELSE (IF a.neg THEN <<"-">> ELSE <<>>) \o
         (IF a.cls = "inf" THEN <<"i", "n", "f">>
          ELSE NatText(a.num \div a.den) \o
               (IF a.num % a.den = 0 THEN <<>>
                ELSE <<".">> \o FracText(a.num % a.den, a.den)))

\* format!("{value:?}") of an f32 (Debug): as Display, but a whole number
\* keeps a trailing ".0"
F32Debug(a) ==
    IF a.cls = "fin" /\ a.num % a.den = 0
    THEN F32Display(a) \o <<".", "0">>
    ELSE F32Display(a)

----------------------------------------------------------------------------
(* LiteralValue: the runtime value model *)

Boolean(b) == [type |-> "Boolean", b |-> b]
String(s) == [type |-> "String", s |-> s]
Number(n) == [type |-> "Number", n |-> n]
Identifier(id) == [type |-> "Identifier", id |-> id]
Nil == [type |-> "Nil"]

\* a panic!(msg) raised while evaluating: it unwinds through every caller
Panic(msg) == [type |-> "Panic", msg |-> msg]
IsPanic(v) == v.type = "Panic"

\* position of a variant in the enum declaration
Discriminant(v) ==
    CASE v.type = "Boolean" -> 0
      [] v.type = "String" -> 1
      [] v.type = "Number" -> 2
      [] v.type = "Identifier" -> 3
      [] v.type = "Nil" -> 4

\* Ord for str: lexicographic by character code
RECURSIVE StrCmp(_, _)
StrCmp(s, t) ==
    IF s = <<>> THEN (IF t = <<>> THEN "Equal" ELSE "Less")
    ELSE IF t = <<>> THEN "Greater"
    ELSE IF CharCode(Head(s)) < CharCode(Head(t)) THEN "Less"
    ELSE IF CharCode(Head(s)) > CharCode(Head(t)) THEN "Greater"
    ELSE StrCmp(Tail(s), Tail(t))

\* #[derive(PartialOrd)]: by variant first, then by payload
partial_cmp(a, b) ==
    IF Discriminant(a) < Discriminant(b) THEN "Less"
    ELSE IF Discriminant(a) > Discriminant(b) THEN "Greater"
    ELSE CASE a.type = "Boolean" ->
                  IF a.b = b.b THEN "Equal" ELSE IF b.b THEN "Less" ELSE "Greater"
           [] a.type = "String" -> StrCmp(a.s, b.s)
           [] a.type = "Number" -> F32Cmp(a.n, b.n)
           [] a.type = "Identifier" -> StrCmp(a.id, b.id)
           [] a.type = "Nil" -> "Equal"

\* an equality of representations: NaN equals NaN, 0 differs from -0
eq_bitwise(a, b) == a = b

\* #[derive(PartialEq)]: same variant and equal payload (f32 ==)
eq(a, b) ==
    /\ a.type = b.type
    /\ CASE a.type = "Boolean" -> a.b = b.b
         [] a.type = "String" -> a.s = b.s
         [] a.type = "Number" -> F32Cmp(a.n, b.n) = "Equal"
         [] a.type = "Identifier" -> a.id = b.id
         [] a.type = "Nil" -> TRUE

gt(a, b) == partial_cmp(a, b) = "Greater"
ge(a, b) == partial_cmp(a, b) \in {"Greater", "Equal"}
lt(a, b) == partial_cmp(a, b) = "Less"

BoolText(b) == IF b THEN <<"t", "r", "u", "e">> ELSE <<"f", "a", "l", "s", "e">>
NilText == <<"n", "i", "l">>

\* LiteralValue::to_string
to_string(v) ==
    CASE v.type = "Boolean" -> BoolText(v.b)
      [] v.type = "String" -> v.s
      [] v.type = "Number" -> F32Display(v.n)
      [] v.type = "Nil" -> NilText
      [] v.type = "Identifier" -> v.id

\* str's Debug: the text in double quotes, with " and \ escaped
RECURSIVE EscapeDebug(_)
EscapeDebug(s) ==
    IF s = <<>> THEN <<>>
    ELSE (IF Head(s) \in {"\"", "\\"} THEN <<"\\", Head(s)>> ELSE <<Head(s)>>)
         \o EscapeDebug(Tail(s))
StrDebug(s) == <<"\"">> \o EscapeDebug(s) \o <<"\"">>

\* #[derive(Debug)]: format!("{value:?}")
debug(v) ==
    CASE v.type = "Boolean" ->
             <<"B", "o", "o", "l", "e", "a", "n", "(">> \o BoolText(v.b) \o <<")">>
      [] v.type = "String" ->
             <<"S", "t", "r", "i", "n", "g", "(">> \o StrDebug(v.s) \o <<")">>
      [] v.type = "Number" ->
             <<"N", "u", "m", "b", "e", "r", "(">> \o F32Debug(v.n) \o <<")">>
      [] v.type = "Nil" -> <<"N", "i", "l">>
      [] v.type = "Identifier" ->
             <<"I", "d", "e", "n", "t", "i", "f", "i", "e", "r", "(">>
             \o StrDebug(v.id) \o <<")">>

\* str::repeat(n): the text n times; a count of usize::MAX overflows the
\* capacity of any non-empty text and panics
RECURSIVE Times(_, _)
Times(s, n) == IF n = 0 THEN <<>> ELSE s \o Times(s, n - 1)
repeat(s, count) ==
    IF count.max
    THEN IF s = <<>> THEN String(<<>>) ELSE Panic("capacity overflow")
    ELSE String(Times(s, count.n))

\* impl Sub for LiteralValue
sub(l, r) ==
    CASE l.type = "Boolean" -> Panic("Cannot subtract boolean values")
      [] l.type = "String" -> Panic("Cannot subtract string values")
      [] l.type = "Number" ->
             IF r.type = "Number" THEN Number(F32Sub(l.n, r.n))
             ELSE Panic("Cannot subtract values with different types")
      [] l.type = "Nil" -> Panic("Cannot subtract nil values")
      [] l.type = "Identifier" -> Panic("Cannot subtract unresolved identifier")

\* an addition without the Number + String arm
add_without_number_string(l, r) ==
    CASE l.type = "Boolean" ->
             IF r.type = "String" THEN String(BoolText(l.b) \o r.s)
             ELSE Panic("Boolean values can only be added with string values")
      [] l.type = "String" ->
             (CASE r.type = "String" -> String(l.s \o r.s)
                [] r.type = "Boolean" -> String(l.s \o BoolText(r.b))
                [] r.type = "Number" -> String(l.s \o F32Display(r.n))
                [] r.type = "Identifier" ->
                       Panic("Cannot add unresolved identifier to string")
                [] r.type = "Nil" -> String(l.s \o NilText))
      [] l.type = "Number" ->
             IF r.type = "Number" THEN Number(F32Add(l.n, r.n))
             ELSE Panic("Cannot add values with different types")
      [] l.type = "Nil" ->
             IF r.type = "String" THEN String(NilText \o r.s)
             ELSE Panic("Nil values can only be added with string values")
      [] l.type = "Identifier" -> Panic("Cannot add unresolved identifier")

\* impl Add for LiteralValue
add(l, r) ==
    CASE l.type = "Boolean" ->
             IF r.type = "String" THEN String(BoolText(l.b) \o r.s)
             ELSE Panic("Boolean values can only be added with string values")
      [] l.type = "String" ->
             (CASE r.type = "String" -> String(l.s \o r.s)
                [] r.type = "Boolean" -> String(l.s \o BoolText(r.b))
                [] r.type = "Number" -> String(l.s \o F32Display(r.n))
                [] r.type = "Identifier" ->
                       Panic("Cannot add unresolved identifier to string")
                [] r.type = "Nil" -> String(l.s \o NilText))
      [] l.type = "Number" ->
             (CASE r.type = "Number" -> Number(F32Add(l.n, r.n))
                [] r.type = "String" -> String(F32Display(l.n) \o r.s)
                [] OTHER -> Panic("Cannot add values with different types"))
      [] l.type = "Nil" ->
             IF r.type = "String" THEN String(NilText \o r.s)
             ELSE Panic("Nil values can only be added with string values")
      [] l.type = "Identifier" -> Panic("Cannot add unresolved identifier")

\* impl Div for LiteralValue
div(l, r) ==
    CASE l.type = "Boolean" -> Panic("Cannot divide boolean values")
      [] l.type = "String" -> Panic("Cannot divide string values")
      [] l.type = "Number" ->
             IF r.type = "Number" THEN Number(F32Div(l.n, r.n))
             ELSE Panic("Cannot divide values with different types")
      [] l.type = "Nil" -> Panic("Cannot divide nil values")
      [] l.type = "Identifier" -> Panic("Cannot divide unresolved identifier")

\* impl Mul for LiteralValue
mul(l, r) ==
    CASE l.type = "Boolean" -> Panic("Cannot multiply boolean values")
      [] l.type = "String" ->
             IF r.type = "Number" THEN repeat(l.s, AsUsize(r.n))
             ELSE Panic("Strings can only be multiplied by a number")
      [] l.type = "Number" ->
             (CASE r.type = "Number" -> Number(F32Mul(l.n, r.n))
                [] r.type = "String" -> repeat(r.s, AsUsize(l.n))
                [] OTHER -> Panic("Cannot multiply values with different types"))
      [] l.type = "Nil" -> Panic("Cannot multiply nil values")
      [] l.type = "Identifier" -> Panic("Cannot multiply unresolved identifier")

----------------------------------------------------------------------------
(* the AST *)

\* enum Expression
Binary(left, right, op) ==
    [type |-> "Binary", left |-> left, right |-> right, operator |-> op]
Grouping(e) == [type |-> "Grouping", expression |-> e]
Literal(v) == [type |-> "Literal", value |-> v]
Unary(right, op) == [type |-> "Unary", right |-> right, operator |-> op]

\* enum Operator
Operators == {"BangEquals", "EqualsEquals", "Greater", "GreaterEqual", "Less",
              "LessEqual", "Minus", "Plus", "Slash", "Star", "Bang"}

\* enum Statement
PrintStatement(e) == [type |-> "Print", expression |-> e]
ExpressionStatement(e) == [type |-> "Expression", expression |-> e]

\* enum Declaration
VariableAssignment(id, e) ==
    [type |-> "VariableAssignment", identifier |-> id, value |-> e]
Statement(s) == [type |-> "Statement", statement |-> s]
Block(ds) == [type |-> "Block", declarations |-> ds]

----------------------------------------------------------------------------
(* Scanner: tokens *)

\* enum Token, enum TokenDirection, enum Keyword
Paren(direction) == [type |-> "Paren", direction |-> direction]
Brace(direction) == [type |-> "Brace", direction |-> direction]
Tok(name) == [type |-> name]
StringToken(s) == [type |-> "String", s |-> s]
NumberToken(n) == [type |-> "Number", n |-> n]
IdentifierToken(id) == [type |-> "Identifier", id |-> id]
Keyword(k) == [type |-> "Keyword", keyword |-> k]

\* Option<char>::None, returned by peek and advance at the end of the source
None == "None"

\* utils.rs
is_digit(char) == char # None /\ \E i \in 1..10 : Digits[i] = char
is_alpha(char) ==
    /\ char # None
    /\ \/ \E i \in 34..59 : PrintableLow[i] = char      \* 'A'..'Z'
       \/ \E i \in 1..26 : PrintableHigh[i] = char      \* 'a'..'z'
       \/ char = "_"
is_alpha_numeric(char) == is_alpha(char) \/ is_digit(char)

\* the keyword a word spells (KW_AND .. KW_WHILE), or an identifier
Keywords ==
    << <<<<"a", "n", "d">>, "And">>,
       <<<<"c", "l", "a", "s", "s">>, "Class">>,
       <<<<"e", "l", "s", "e">>, "Else">>,
       <<<<"f", "a", "l", "s", "e">>, "False">>,
       <<<<"f", "o", "r">>, "For">>,
       <<<<"f", "u", "n">>, "Function">>,
       <<<<"i", "f">>, "If">>,
       <<<<"n", "i", "l">>, "Nil">>,
       <<<<"o", "r">>, "Or">>,
       <<<<"p", "r", "i", "n", "t">>, "Print">>,
       <<<<"r", "e", "t", "u", "r", "n">>, "Return">>,
       <<<<"s", "u", "p", "e", "r">>, "Super">>,
       <<<<"t", "h", "i", "s">>, "This">>,
       <<<<"t", "r", "u", "e">>, "True">>,
       <<<<"v", "a", "r">>, "VariableDeclaration">>,
       <<<<"w", "h", "i", "l", "e">>, "While">> >>
word_token(alpha_numeric) ==
    IF \E i \in 1..Len(Keywords) : Keywords[i][1] = alpha_numeric
    THEN Keyword((CHOOSE k \in {Keywords[i] : i \in 1..Len(Keywords)} :
                      k[1] = alpha_numeric)[2])
    ELSE IdentifierToken(alpha_numeric)

----------------------------------------------------------------------------
(* str::parse::<f32> on a run of digits and dots that starts with a digit *)

DigitValue(char) == (CHOOSE i \in 1..10 : Digits[i] = char) - 1

\* the value of a run of digits, dots skipped
RECURSIVE NatOf(_)
NatOf(text) ==
    IF text = <<>> THEN 0
    ELSE LET front == SubSeq(text, 1, Len(text) - 1)
             last == text[Len(text)]
         IN  IF last = "." THEN NatOf(front)
             ELSE NatOf(front) * 10 + DigitValue(last)

RECURSIVE Pow(_, _)
Pow(b, k) == IF k = 0 THEN 1 ELSE b * Pow(b, k - 1)

Dots(text) == Cardinality({i \in 1..Len(text) : text[i] = "."})
\* the number of digits after the dot, 0 when there is no dot
Decimals(text) ==
    IF Dots(text) = 0 THEN 0
    ELSE Len(text) - (CHOOSE i \in 1..Len(text) : text[i] = ".")

\* the f32 nearest to n/d (ties to even): binary long division until the
\* quotient q = floor(n * 2^k / d) is exact or has the 24 bits of an f32
\* significand, then rounding on the remainder r.  The literals of the model
\* have fewer than eight digits, so the integer part is below 2^23.
RECURSIVE Nearest(_, _, _, _)
Nearest(q, r, d, k) ==
    IF r = 0 THEN Fin(FALSE, q, Pow(2, k))
    ELSE IF q >= 8388608
         THEN LET up == 2 * r > d \/ (2 * r = d /\ q % 2 = 1)
              IN  Fin(FALSE, IF up THEN q + 1 ELSE q, Pow(2, k))
         ELSE The({Nearest(n[1], n[2], n[3], n[4])
                   : n \in {IF 2 * r >= d THEN <<2 * q + 1, 2 * r - d, d, k + 1>>
                            ELSE <<2 * q, 2 * r, d, k + 1>>}})

\* digits, then optionally a dot and digits (possibly none): anything with a
\* second dot is not a float and parse returns Err; the scanner's expect
\* then panics
parse_f32(text) ==
    IF Dots(text) > 1 THEN Panic("Failed to parse float")
    ELSE The({Number(Nearest(n \div d, n % d, d, 0))
              : d \in {Pow(10, Decimals(text))}, n \in {NatOf(text)}})

----------------------------------------------------------------------------
(* Scanner *)

\* Scanner::from_source
from_source(source) ==
    [source_chars |-> source, tokens |-> <<>>, start |-> 0, current |-> 0,
     line |-> 1]

is_at_end(sc) == sc.current >= Len(sc.source_chars)
peek(sc) == IF is_at_end(sc) THEN None ELSE sc.source_chars[sc.current + 1]
\* an advance that stays where it is at the end of the source
advance_within(sc) == IF is_at_end(sc) THEN sc ELSE [sc EXCEPT !.current = @ + 1]

\* Scanner::advance: the cursor moves even at the end of the source
advance(sc) == [sc EXCEPT !.current = @ + 1]
match_next(sc, maybe_next) == peek(sc) = maybe_next
add_token(sc, token) == [sc EXCEPT !.tokens = Append(@, token)]
\* self.source_chars[self.start..self.current]
lexeme(sc) == SubSeq(sc.source_chars, sc.start + 1, sc.current)

\* the outcome of scan_token: the scanner after it, and the Err message
\* (NoError for Ok(())) or the panic that ended it
NoError == [message |-> "none"]
Scanned(sc) == [sc |-> sc, err |-> NoError, panic |-> FALSE]
Failed(sc, message) == [sc |-> sc, err |-> message, panic |-> FALSE]
Aborted(sc) == [sc |-> sc, err |-> NoError, panic |-> TRUE]

UnexpectedCharacter(char, line) ==
    [message |-> "Unexpected character", char |-> char, line |-> line]
UnterminatedString == [message |-> "Unterminated string"]

\* the loop of a `//` comment: advance up to and over the newline, or to the
\* end of the source
RECURSIVE comment_loop(_)
comment_loop(sc) ==
    LET char == peek(sc)
    IN  IF char = "\n" \/ char = None THEN advance(sc)
        ELSE comment_loop(advance(sc))

\* the loop of a string literal: advance over the closing quote, counting
\* newlines; the end of the source comes first for an unterminated string
RECURSIVE string_loop(_)
string_loop(sc) ==
    LET char == peek(sc)
    IN  IF char = "\"" THEN Scanned(advance(sc))
        ELSE IF char = "\n" THEN string_loop([advance(sc) EXCEPT !.line = @ + 1])
        ELSE IF char = None THEN Failed(advance(sc), UnterminatedString)
        ELSE string_loop(advance(sc))

\* the loop of a number: advance over dots and digits and one character more
RECURSIVE number_loop(_)
number_loop(sc) ==
    LET char == peek(sc)
    IN  IF char = "." \/ is_digit(char) THEN number_loop(advance(sc))
        ELSE advance(sc)

\* the loop of a word: advance over letters and digits and one character more
RECURSIVE identifier_loop(_)
identifier_loop(sc) ==
    LET char == peek(sc)
    IN  IF is_alpha_numeric(char) THEN identifier_loop(advance(sc))
        ELSE advance(sc)

\* self.current -= 1
step_back(sc) == [sc EXCEPT !.current = @ - 1]

\* '!', '=', '<', '>': one token alone, another when '=' follows
one_or_two(sc, alone, with_equals) ==
    IF match_next(sc, "=") THEN Scanned(add_token(advance(sc), Tok(with_equals)))
    ELSE Scanned(add_token(sc, Tok(alone)))

\* Scanner::scan_token
scan_token(sc0) ==
    LET char == peek([sc0 EXCEPT !.start = sc0.current])
        sc == advance([sc0 EXCEPT !.start = sc0.current])
    IN  CASE char = None -> Scanned(sc)
          [] char \in {" ", "\r", "\t"} -> Scanned(sc)
          [] char = "\n" -> Scanned([sc EXCEPT !.line = @ + 1])
          [] char = "(" -> Scanned(add_token(sc, Paren("Left")))
          [] char = ")" -> Scanned(add_token(sc, Paren("Right")))
          [] char = "{" -> Scanned(add_token(sc, Brace("Left")))
          [] char = "}" -> Scanned(add_token(sc, Brace("Right")))
          [] char = "," -> Scanned(add_token(sc, Tok("Comma")))
          [] char = "." -> Scanned(add_token(sc, Tok("Dot")))
          [] char = "-" -> Scanned(add_token(sc, Tok("Minus")))
          [] char = "+" -> Scanned(add_token(sc, Tok("Plus")))
          [] char = "*" -> Scanned(add_token(sc, Tok("Star")))
          [] char = ";" -> Scanned(add_token(sc, Tok("SemiColon")))
          [] char = "!" -> one_or_two(sc, "Bang", "BangEquals")
          [] char = "=" -> one_or_two(sc, "Equals", "EqualsEquals")
          [] char = "<" -> one_or_two(sc, "Less", "LessEqual")
          [] char = ">" -> one_or_two(sc, "Greater", "GreaterEqual")
          [] char = "/" ->
                 (IF match_next(sc, "/") THEN Scanned(comment_loop(sc))
                  ELSE Scanned(add_token(sc, Tok("Slash"))))
          [] char = "\"" ->
                 The({IF r.err # NoError THEN r
                      ELSE Scanned(add_token(r.sc, StringToken(lexeme(r.sc))))
                      : r \in {string_loop(sc)}})
          [] OTHER ->
                 (IF is_digit(char)
                  THEN The({The({IF IsPanic(number) THEN Aborted(s)
                                 ELSE Scanned(add_token(s, NumberToken(number.n)))
                                 : number \in {parse_f32(lexeme(s))}})
                            : s \in {step_back(number_loop(sc))}})
                  ELSE IF is_alpha(char)
                  THEN The({Scanned(add_token(s, word_token(lexeme(s))))
                            : s \in {step_back(identifier_loop(sc))}})
                  ELSE Failed(sc, UnexpectedCharacter(char, sc.line)))

\* Result<&Tokens, String>
Ok(tokens) == [type |-> "Ok", tokens |-> tokens]
Err(message) == [type |-> "Err", message |-> message]

----------------------------------------------------------------------------
(* Parser.  A parser p is [tokens, current]; a parsing function returns    *)
(* [ok, node, p]: the node it built and the parser after it, or            *)
(* [ok |-> FALSE, msg, p] when a panic! has aborted the parse.             *)

\* Statement::If
IfStatement(condition, declaration) ==
    [type |-> "If", condition |-> condition, declaration |-> declaration]

\* Option<&Token>::None, returned by peek past the last token
NoToken == [type |-> "None"]

\* Parser::new
parser_new(tokens) == [tokens |-> tokens, current |-> 0]

\* Parser::peek_nth: self.tokens.get(self.current + n)
peek_nth(p, n) ==
    IF p.current + n < Len(p.tokens) THEN p.tokens[p.current + n + 1]
    ELSE NoToken
\* Parser::peek
parser_peek(p) == peek_nth(p, 0)
\* Parser::advance_nth
advance_nth(p, n) == [p EXCEPT !.current = @ + n]
\* Parser::advance
parser_advance(p) == advance_nth(p, 1)

Parsed(node, p) == [ok |-> TRUE, node |-> node, p |-> p]
ParsePanic(msg, p) == [ok |-> FALSE, msg |-> msg, p |-> p]

\* Parser::consume_semicolon
consume_semicolon(p) ==
    IF parser_peek(p).type = "SemiColon" THEN Parsed(NoToken, parser_advance(p))
    ELSE ParsePanic("Expected a semicolon", p)

\* Parser::consume_brace
consume_brace(p, direction) ==
    IF parser_peek(p) = Brace(direction) THEN Parsed(NoToken, parser_advance(p))
    ELSE ParsePanic(IF direction = "Left" THEN "Expected left brace"
                    ELSE "Expected right brace", p)

\* impl From<&Token> for Operator: the operator tokens and the operators
\* have the same names
OperatorFrom(token) == token.type

\* a literal that keeps the quotes of the token
unquote_keeping(string) == String(string)

\* string[1..string.len() - 1]: the slice panics on a text shorter than two
\* characters
unquote(string) ==
    IF Len(string) < 2 THEN Panic("slice index out of range")
    ELSE String(SubSeq(string, 2, Len(string) - 1))

RECURSIVE declaration(_), block_loop(_, _), statement_declaration(_),
          expression(_), equality_loop(_, _), comparison(_),
          comparison_loop(_, _), term(_), term_loop(_, _), factor(_),
          factor_loop(_, _), unary(_)

\* Parser::primary
primary(p0) ==
    LET token == parser_peek(p0)
        p == parser_advance(p0)
    IN  CASE token.type = "Keyword" /\ token.keyword = "False" ->
                 Parsed(Literal(Boolean(FALSE)), p)
          [] token.type = "Keyword" /\ token.keyword = "True" ->
                 Parsed(Literal(Boolean(TRUE)), p)
          [] token.type = "Keyword" /\ token.keyword = "Nil" ->
                 Parsed(Literal(Nil), p)
          [] token.type = "Number" -> Parsed(Literal(Number(token.n)), p)
          [] token.type = "String" ->
                 (IF IsPanic(unquote(token.s)) THEN ParsePanic(unquote(token.s).msg, p)
                  ELSE Parsed(Literal(unquote(token.s)), p))
          [] token.type = "Identifier" ->
                 Parsed(Literal(Identifier(token.id)), p)
          [] token = Paren("Left") ->
                 The({IF ~r.ok THEN r
                      ELSE IF parser_peek(r.p) = Paren("Right")
                      THEN Parsed(Grouping(r.node), parser_advance(r.p))
                      ELSE ParsePanic("Expected ')' after expression",
                                      parser_advance(r.p))
                      : r \in {expression(p)}})
          [] token = NoToken -> ParsePanic("TODO: Handle EOF", p)
          [] OTHER -> ParsePanic("Syntax error??", p)

\* a unary that takes every operator token as a prefix operator
unary_any_operator(p) ==
    IF parser_peek(p).type \in Operators
    THEN The({IF ~r.ok THEN r
              ELSE Parsed(Unary(r.node, OperatorFrom(parser_peek(p))), r.p)
              : r \in {unary(parser_advance(p))}})
    ELSE primary(p)

\* Parser::unary
unary(p) ==
    IF parser_peek(p).type \in {"Bang", "Minus", "Plus"}
    THEN The({IF ~r.ok THEN r
              ELSE Parsed(Unary(r.node, OperatorFrom(parser_peek(p))), r.p)
              : r \in {unary(parser_advance(p))}})
    ELSE primary(p)

\* the loop of Parser::factor
factor_loop(expr, p) ==
    IF parser_peek(p).type \in {"Slash", "Star"}
    THEN The({IF ~r.ok THEN r
              ELSE factor_loop(Binary(expr, r.node, OperatorFrom(parser_peek(p))), r.p)
              : r \in {unary(parser_advance(p))}})
    ELSE Parsed(expr, p)

\* Parser::factor
factor(p) ==
    The({IF ~r.ok THEN r ELSE factor_loop(r.node, r.p) : r \in {unary(p)}})

\* a loop that takes the whole rest of the chain as the right operand
term_loop_right(expr, p) ==
    IF parser_peek(p).type \in {"Minus", "Plus"}
    THEN The({IF ~r.ok THEN r
              ELSE Parsed(Binary(expr, r.node, OperatorFrom(parser_peek(p))), r.p)
              : r \in {term(parser_advance(p))}})
    ELSE Parsed(expr, p)

\* a loop that takes `/` and `*` at the level of `-` and `+`
term_loop_flat(expr, p) ==
    IF parser_peek(p).type \in {"Minus", "Plus", "Slash", "Star"}
    THEN The({IF ~r.ok THEN r
              ELSE term_loop(Binary(expr, r.node, OperatorFrom(parser_peek(p))), r.p)
              : r \in {unary(parser_advance(p))}})
    ELSE Parsed(expr, p)

\* the loop of Parser::term
term_loop(expr, p) ==
    IF parser_peek(p).type \in {"Minus", "Plus"}
    THEN The({IF ~r.ok THEN r
              ELSE term_loop(Binary(expr, r.node, OperatorFrom(parser_peek(p))), r.p)
              : r \in {factor(parser_advance(p))}})
    ELSE Parsed(expr, p)

\* Parser::term
term(p) ==
    The({IF ~r.ok THEN r ELSE term_loop(r.node, r.p) : r \in {factor(p)}})

\* the loop of Parser::comparison
comparison_loop(expr, p) ==
    IF parser_peek(p).type \in {"Greater", "GreaterEqual", "Less", "LessEqual"}
    THEN The({IF ~r.ok THEN r
              ELSE comparison_loop(Binary(expr, r.node, OperatorFrom(parser_peek(p))),
                                   r.p)
              : r \in {term(parser_advance(p))}})
    ELSE Parsed(expr, p)

\* Parser::comparison
comparison(p) ==
    The({IF ~r.ok THEN r ELSE comparison_loop(r.node, r.p) : r \in {term(p)}})

\* the loop of Parser::equality
equality_loop(expr, p) ==
    IF parser_peek(p).type \in {"BangEquals", "EqualsEquals"}
    THEN The({IF ~r.ok THEN r
              ELSE equality_loop(Binary(expr, r.node, OperatorFrom(parser_peek(p))),
                                 r.p)
              : r \in {comparison(parser_advance(p))}})
    ELSE Parsed(expr, p)

\* Parser::equality
equality(p) ==
    The({IF ~r.ok THEN r ELSE equality_loop(r.node, r.p) : r \in {comparison(p)}})

\* Parser::expression
expression(p) == equality(p)

\* consume_semicolon after the expression of r, then the statement built
\* from it
then_semicolon(r, node) ==
    IF ~r.ok THEN r
    ELSE The({IF ~s.ok THEN s ELSE Parsed(node, s.p)
              : s \in {consume_semicolon(r.p)}})

\* Parser::expression_statement
expression_statement(p) ==
    The({then_semicolon(r, IF r.ok THEN ExpressionStatement(r.node) ELSE NoToken)
         : r \in {expression(p)}})

\* Parser::print
print_statement(p) ==
    The({then_semicolon(r, IF r.ok THEN PrintStatement(r.node) ELSE NoToken)
         : r \in {expression(parser_advance(p))}})

\* Parser::if_statement
if_statement(p) ==
    The({IF ~condition.ok THEN condition
         ELSE The({IF ~d.ok THEN d
                   ELSE Parsed(IfStatement(condition.node, d.node), d.p)
                   : d \in {declaration(condition.p)}})
         : condition \in {expression(parser_advance(p))}})

\* Parser::statement
statement(p) ==
    LET token == parser_peek(p)
    IN  IF token = Keyword("Print") THEN print_statement(p)
        ELSE IF token = Keyword("If") THEN if_statement(p)
        ELSE expression_statement(p)

\* Parser::statement_declaration
statement_declaration(p) ==
    The({IF ~r.ok THEN r ELSE Parsed(Statement(r.node), r.p) : r \in {statement(p)}})

\* the declaration of an expression statement
expression_statement_declaration(p) ==
    The({IF ~r.ok THEN r ELSE Parsed(Statement(r.node), r.p)
         : r \in {expression_statement(p)}})

\* an assignment check that consumes the identifier before it looks at the
\* next token
variable_assignment_eager(p) ==
    IF parser_peek(p).type = "Identifier" /\ peek_nth(p, 1) = Tok("Equals")
    THEN The({then_semicolon(r, IF r.ok
                                THEN VariableAssignment(parser_peek(p).id, r.node)
                                ELSE NoToken)
              : r \in {expression(advance_nth(p, 2))}})
    ELSE statement_declaration(parser_advance(p))

\* Parser::variable_assignment
variable_assignment(p) ==
    IF parser_peek(p).type = "Identifier" /\ peek_nth(p, 1) = Tok("Equals")
    THEN The({then_semicolon(r, IF r.ok
                                THEN VariableAssignment(parser_peek(p).id, r.node)
                                ELSE NoToken)
              : r \in {expression(advance_nth(p, 2))}})
    ELSE statement_declaration(p)

\* Parser::identifier
identifier_declaration(p) == variable_assignment(p)

\* the loop of Parser::block: declarations up to the closing brace
block_loop(declarations, p) ==
    IF parser_peek(p) # Brace("Right")
    THEN The({IF ~d.ok THEN d ELSE block_loop(Append(declarations, d.node), d.p)
              : d \in {declaration(p)}})
    ELSE Parsed(declarations, p)

\* Parser::block
block(p) ==
    The({IF ~open.ok THEN open
         ELSE The({IF ~ds.ok THEN ds
                   ELSE The({IF ~close.ok THEN close
                             ELSE Parsed(Block(ds.node), close.p)
                             : close \in {consume_brace(ds.p, "Right")}})
                   : ds \in {block_loop(<<>>, open.p)}})
         : open \in {consume_brace(p, "Left")}})

\* Parser::declaration
declaration(p) ==
    LET token == parser_peek(p)
    IN  IF token = Brace("Left") THEN block(p)
        ELSE IF token.type = "Identifier" THEN identifier_declaration(p)
        ELSE statement_declaration(p)

\* Parser::parse_expression
parse_expression(p) == expression(p)

----------------------------------------------------------------------------
(* Environment *)

VERSION == <<"V", "E", "R", "S", "I", "O", "N">>
\* env!("CARGO_PKG_VERSION"): the package version, fixed at build time
CARGO_PKG_VERSION == <<"0", ".", "1", ".", "0">>

\* Environment::new
EnvironmentNew == [n \in {VERSION} |-> String(CARGO_PKG_VERSION)]

\* a lookup that aborts on a name that is not bound
resolve_strict(env, identifier) ==
    IF identifier \in DOMAIN env THEN env[identifier]
    ELSE Panic("Undefined variable")

\* a lookup in the environment as it was constructed
resolve_stale(env, identifier) ==
    IF identifier \in DOMAIN EnvironmentNew THEN EnvironmentNew[identifier] ELSE Nil

\* Environment::resolve
resolve(env, identifier) ==
    IF identifier \in DOMAIN env THEN env[identifier] ELSE Nil

\* an insert that keeps the value of a name already bound
assign_if_absent(env, identifier, value) ==
    IF identifier \in DOMAIN env THEN env
    ELSE [n \in (DOMAIN env) \cup {identifier} |->
             IF n = identifier THEN value ELSE env[n]]

\* Environment::assign: HashMap::insert
assign(env, identifier, value) ==
    [n \in (DOMAIN env) \cup {identifier} |->
        IF n = identifier THEN value ELSE env[n]]

----------------------------------------------------------------------------
(* Interpreter: expressions *)

RECURSIVE evaluate_expression(_, _)

\* Interpreter::evaluate_binary_expression: left operand first, then right
evaluate_binary_expression(env, left, right, op) ==
    LET left_value == evaluate_expression(env, left)
    IN  IF IsPanic(left_value) THEN left_value
        ELSE
        LET right_value == evaluate_expression(env, right)
        IN  IF IsPanic(right_value) THEN right_value
            ELSE
            CASE op = "BangEquals" -> Boolean(~eq(left_value, right_value))
              [] op = "EqualsEquals" -> Boolean(eq(left_value, right_value))
              [] op = "Greater" -> Boolean(gt(left_value, right_value))
              [] op = "GreaterEqual" -> Boolean(ge(left_value, right_value))
              [] op = "Less" -> Boolean(lt(left_value, right_value))
              [] op = "LessEqual" -> Boolean(gt(left_value, right_value))
              [] op = "Minus" -> sub(left_value, right_value)
              [] op = "Plus" -> add(left_value, right_value)
              [] op = "Slash" -> div(left_value, right_value)
              [] op = "Star" -> mul(left_value, right_value)
              [] op = "Bang" -> Panic("Invalid binary operator")

\* a `!` for which only nil and false are falsy
evaluate_unary_expression_falsy(env, right, op) ==
    LET v == evaluate_expression(env, right)
    IN  IF IsPanic(v) THEN v
        ELSE IF op = "Bang"
        THEN Boolean(v.type = "Nil" \/ (v.type = "Boolean" /\ ~v.b))
        ELSE IF op = "Plus" THEN v
        ELSE Panic("Invalid unary operator")

\* Interpreter::evaluate_unary_expression
evaluate_unary_expression(env, right, op) ==
    CASE op = "Minus" ->
             (LET v == evaluate_expression(env, right)
              IN  CASE v.type = "Panic" -> v
                    [] v.type = "Boolean" -> Panic("Boolean values cannot be negated")
                    [] v.type = "String" -> Panic("String values cannot be negated")
                    [] v.type = "Number" -> Number(F32Neg(v.n))
                    [] v.type = "Nil" -> Panic("Nil values cannot be negated")
                    [] v.type = "Identifier" -> Panic("Unexpected unresolved identifier"))
      [] op = "Plus" -> evaluate_expression(env, right)
      [] op = "Bang" ->
             (LET v == evaluate_expression(env, right)
              IN  CASE v.type = "Panic" -> v
                    [] v.type = "Boolean" -> Boolean(~v.b)
                    [] v.type = "String" -> Boolean(Len(v.s) = 0)
                    [] v.type = "Number" -> Boolean(F32Cmp(v.n, Fin(FALSE, 0, 1)) = "Equal")
                    [] v.type = "Nil" -> Boolean(TRUE)
                    [] v.type = "Identifier" -> Panic("Unexpected unresolved identifier"))
      [] OTHER -> Panic("Invalid unary operator")

\* an evaluation that returns an identifier literal as it is
evaluate_expression_unresolved(env, e) ==
    CASE e.type = "Binary" ->
             evaluate_binary_expression(env, e.left, e.right, e.operator)
      [] e.type = "Grouping" -> evaluate_expression(env, e.expression)
      [] e.type = "Literal" -> e.value
      [] e.type = "Unary" -> evaluate_unary_expression(env, e.right, e.operator)

\* Interpreter::evaluate_expression
evaluate_expression(env, e) ==
    CASE e.type = "Binary" ->
             evaluate_binary_expression(env, e.left, e.right, e.operator)
      [] e.type = "Grouping" -> evaluate_expression(env, e.expression)
      [] e.type = "Literal" ->
             IF e.value.type = "Identifier" THEN resolve(env, e.value.id)
             ELSE e.value
      [] e.type = "Unary" -> evaluate_unary_expression(env, e.right, e.operator)

----------------------------------------------------------------------------
(* Interpreter: statements and declarations.  An execution state st is     *)
(* [env, out, panic]: the environment, the lines written while executing,  *)
(* and whether a panic! has aborted the run.                               *)

Line(text) == text \o <<"\n">>

\* a print that also keeps the value it wrote under the name `_`
print_keeping(st, e) ==
    LET v == evaluate_expression(st.env, e)
    IN  IF IsPanic(v) THEN [st EXCEPT !.panic = TRUE]
        ELSE [st EXCEPT !.out = Append(@, Line(to_string(v))),
                        !.env = assign(@, <<"_">>, v)]

\* Interpreter::print: println!("{}", result.to_string())
print(st, e) ==
    LET v == evaluate_expression(st.env, e)
    IN  IF IsPanic(v) THEN [st EXCEPT !.panic = TRUE]
        ELSE [st EXCEPT !.out = Append(@, Line(to_string(v)))]

\* Interpreter::evaluate_expression_statement: print!("{result:?}\n")
evaluate_expression_statement(st, e) ==
    LET v == evaluate_expression(st.env, e)
    IN  IF IsPanic(v) THEN [st EXCEPT !.panic = TRUE]
        ELSE [st EXCEPT !.out = Append(@, Line(debug(v)))]

\* Interpreter::evaluate_statement
evaluate_statement(st, s) ==
    CASE s.type = "Print" -> print(st, s.expression)
      [] s.type = "Expression" -> evaluate_expression_statement(st, s.expression)

\* an assignment that binds the identifier before it evaluates the value
evaluate_assignment_binding_first(st, identifier, value) ==
    LET v == evaluate_expression(st.env, value)
    IN  IF IsPanic(v) THEN [st EXCEPT !.env = assign(@, identifier, Nil),
                                      !.panic = TRUE]
        ELSE [st EXCEPT !.env = assign(@, identifier, v)]

\* the VariableAssignment arm of Interpreter::evaluate_declaration: the value
\* is evaluated first, then stored
evaluate_assignment(st, identifier, value) ==
    LET v == evaluate_expression(st.env, value)
    IN  IF IsPanic(v) THEN [st EXCEPT !.panic = TRUE]
        ELSE [st EXCEPT !.env = assign(@, identifier, v)]

RECURSIVE evaluate_declaration(_, _)

\* a Block run in a child scope: its bindings are dropped when it ends
RECURSIVE run_inner(_, _)
run_inner(st, ds) ==
    IF ds = <<>> \/ st.panic THEN st
    ELSE run_inner(evaluate_declaration(st, Head(ds)), Tail(ds))
evaluate_block_scoped(st, ds) == [run_inner(st, ds) EXCEPT !.env = st.env]

\* a Block: its declarations in order, against the environment of the
\* enclosing scope (no child scope); a panic ends it
RECURSIVE evaluate_block(_, _)
evaluate_block(st, ds) ==
    IF ds = <<>> \/ st.panic THEN st
    ELSE evaluate_block(evaluate_declaration(st, Head(ds)), Tail(ds))

\* Interpreter::evaluate_declaration, on one declaration
evaluate_declaration(st, d) ==
    CASE d.type = "VariableAssignment" ->
             evaluate_assignment(st, d.identifier, d.value)
      [] d.type = "Statement" -> evaluate_statement(st, d.statement)
      [] d.type = "Block" -> evaluate_block(st, d.declarations)

----------------------------------------------------------------------------
(* the programs the model runs *)

MaxProgram == 4   \* most declarations ever submitted to one interpreter
MaxBatch == 2     \* most declarations submitted by one call

Num(n) == Literal(Number(Fin(FALSE, n, 1)))
Str(s) == Literal(String(s))
Var(name) == Literal(Identifier(name))
x == <<"x">>
y == <<"y">>

AssignX1 == VariableAssignment(x, Num(1))                     \* x = 1;
AssignX2 == VariableAssignment(x, Num(2))                     \* x = 2;
PrintX == Statement(PrintStatement(Var(x)))                   \* print x;
AssignYX1 == VariableAssignment(y, Binary(Var(x), Num(1), "Plus")) \* y = x + 1;
ShowY == Statement(ExpressionStatement(Var(y)))               \* y;
\* { x = "a"; { y = x; } print y; }
NestedBlock ==
    Block(<<VariableAssignment(x, Str(<<"a">>)),
            Block(<<VariableAssignment(y, Var(x))>>),
            Statement(PrintStatement(Var(y)))>>)

DeclPool == {AssignX1, AssignX2, PrintX, AssignYX1, ShowY, NestedBlock}

SeqsUpTo(S, n) == UNION {[1..k -> S] : k \in 1..n}
Batches == SeqsUpTo(DeclPool, MaxBatch)

----------------------------------------------------------------------------
(* Interpreter: the run loop *)

NoResult == [type |-> "None"]

\* no scanner and no parser at work
FrontIdle ==
    /\ scanner = from_source(<<>>)
    /\ scanned = NoResult
    /\ parser = parser_new(<<>>)
    /\ parsed = NoResult

\* Program::add_declarations: the declarations are appended, in order
add_declarations(prog, declarations) == prog \o declarations

\* a loop step that advances past two declarations
NextIndexSkipping(cur) == cur + 2

\* the step of the loop of Interpreter::run: self.current += 1
NextIndex(cur) == cur + 1

\* Interpreter::new(program): a fresh environment, current = 0
Init ==
    /\ program \in {<<>>} \cup Batches
    /\ current = 0
    /\ environment = EnvironmentNew
    /\ output = <<>>
    /\ pc = "idle"
    /\ executed = <<>>
    /\ outputBy = <<>>
    /\ calls = 0
    /\ lhs = Literal(Nil)
    /\ rhs = Literal(Nil)
    /\ operator = "Plus"
    /\ result = NoResult
    /\ FrontIdle

\* a call that starts the run again from the first declaration
EvaluateDeclarationsRestarting ==
    /\ pc = "idle"
    /\ \E declarations \in Batches :
          /\ Len(program) + Len(declarations) <= MaxProgram
          /\ program' = add_declarations(program, declarations)
    /\ calls' = calls + 1
    /\ pc' = "run"
    /\ current' = 0
    /\ UNCHANGED <<environment, output, executed, outputBy>>
    /\ UNCHANGED opsVars
    /\ UNCHANGED frontVars

\* Interpreter::evaluate_declarations: add the declarations, then run
EvaluateDeclarations ==
    /\ pc = "idle"
    /\ \E declarations \in Batches :
          /\ Len(program) + Len(declarations) <= MaxProgram
          /\ program' = add_declarations(program, declarations)
    /\ calls' = calls + 1
    /\ pc' = "run"
    /\ UNCHANGED <<current, environment, output, executed, outputBy>>
    /\ UNCHANGED opsVars
    /\ UNCHANGED frontVars

\* Interpreter::run called by the host
Run ==
    /\ pc = "idle"
    /\ pc' = "run"
    /\ UNCHANGED <<program, current, environment, output>>
    /\ UNCHANGED history
    /\ UNCHANGED opsVars
    /\ UNCHANGED frontVars

\* one iteration of the loop of Interpreter::run: evaluate_declaration on
\* program[current], then current += 1; a panic ends the process
RunStep ==
    /\ pc = "run"
    /\ current < Len(program)
    /\ LET st == evaluate_declaration(
                     [env |-> environment, out |-> <<>>, panic |-> FALSE],
                     program[current + 1])
       IN  /\ environment' = st.env
           /\ output' = output \o st.out
           /\ outputBy' = outputBy \o [i \in 1..Len(st.out) |-> current]
           /\ IF st.panic
              THEN pc' = "panic" /\ current' = current
              ELSE pc' = "run" /\ current' = NextIndex(current)
    /\ executed' = Append(executed, current)
    /\ UNCHANGED <<program, calls>>
    /\ UNCHANGED opsVars
    /\ UNCHANGED frontVars

\* the loop of Interpreter::run ends: current >= program.len()
RunReturn ==
    /\ pc = "run"
    /\ current >= Len(program)
    /\ pc' = "idle"
    /\ UNCHANGED <<program, current, environment, output>>
    /\ UNCHANGED history
    /\ UNCHANGED opsVars
    /\ UNCHANGED frontVars

Next == EvaluateDeclarations \/ Run \/ RunStep \/ RunReturn

Spec == Init /\ [][Next]_vars

----------------------------------------------------------------------------
(* the binary operators, applied to operands of every variant *)

Neg(e) == Unary(e, "Minus")
z == <<"z">>

\* operand expressions, with the value each evaluates to
Operands ==
    { Literal(Boolean(FALSE)), Literal(Boolean(TRUE)),       \* false  true
      Str(<<>>), Str(<<"a">>), Str(<<"a", "b">>),            \* ""  "a"  "ab"
      Num(0), Num(1), Num(2), Num(3),                        \* 0  1  2  3
      Literal(Number(Fin(FALSE, 5, 2))),                     \* 2.5
      Binary(Num(1), Num(2), "Slash"),                       \* 1/2  (0.5)
      Neg(Num(0)), Neg(Num(2)),                              \* -0  -2
      Binary(Num(1), Num(0), "Slash"),                       \* 1/0  (inf)
      Binary(Neg(Num(1)), Num(0), "Slash"),                  \* -1/0  (-inf)
      Binary(Num(0), Num(0), "Slash"),                       \* 0/0  (NaN)
      Literal(Nil), Var(z), Var(VERSION) }                   \* nil  z  VERSION

OpsInit ==
    /\ program = <<>>
    /\ current = 0
    /\ environment = EnvironmentNew
    /\ output = <<>>
    /\ pc = "ops"
    /\ executed = <<>>
    /\ outputBy = <<>>
    /\ calls = 0
    /\ lhs \in Operands
    /\ rhs \in Operands
    /\ operator \in Operators
    /\ result = NoResult
    /\ FrontIdle

\* Interpreter::evaluate_binary_expression on lhs operator rhs
Apply ==
    /\ pc = "ops"
    /\ result = NoResult
    /\ result' = evaluate_binary_expression(environment, lhs, rhs, operator)
    /\ UNCHANGED <<program, current, environment, output, pc>>
    /\ UNCHANGED history
    /\ UNCHANGED <<lhs, rhs, operator>>
    /\ UNCHANGED frontVars

OpsNext == Apply

SpecOps == OpsInit /\ [][OpsNext]_vars

\* the operand values of the harness
Lhs == evaluate_expression(environment, lhs)
Rhs == evaluate_expression(environment, rhs)
Applied == pc = "ops" /\ result # NoResult

----------------------------------------------------------------------------
(* the unary operators, applied to operands of every variant *)

\* the interpreter and the binary harness at rest
BackIdle ==
    /\ program = <<>>
    /\ current = 0
    /\ environment = EnvironmentNew
    /\ output = <<>>
    /\ executed = <<>>
    /\ outputBy = <<>>
    /\ calls = 0
    /\ lhs = Literal(Nil)

Not(e) == Unary(e, "Bang")

UnaryInit ==
    /\ BackIdle
    /\ pc = "unary"
    /\ rhs \in Operands \cup {Not(e) : e \in Operands}
    /\ operator \in Operators
    /\ result = NoResult
    /\ FrontIdle

\* Interpreter::evaluate_unary_expression on operator rhs
ApplyUnary ==
    /\ pc = "unary"
    /\ result = NoResult
    /\ result' = evaluate_unary_expression(environment, rhs, operator)
    /\ UNCHANGED <<program, current, environment, output, pc>>
    /\ UNCHANGED history
    /\ UNCHANGED <<lhs, rhs, operator>>
    /\ UNCHANGED frontVars

UnaryNext == ApplyUnary

SpecUnary == UnaryInit /\ [][UnaryNext]_vars

----------------------------------------------------------------------------
(* Interpreter::run on programs with declarations that can abort *)

MaxFailing == 3   \* most declarations of such a program

AssignXNegated == VariableAssignment(x, Neg(Str(<<"a">>)))         \* x = -"a";
AssignXLess1 == VariableAssignment(x, Binary(Var(x), Num(1), "Minus")) \* x = x - 1;
AssignYNegated == VariableAssignment(y, Neg(Var(x)))               \* y = -x;
PrintNegated == Statement(PrintStatement(Neg(Var(x))))             \* print -x;

FailingPool == {AssignX1, AssignXNegated, AssignXLess1, AssignYNegated, PrintNegated}

\* Interpreter::new(program), the host has not called run yet
FailingInit ==
    /\ program \in SeqsUpTo(FailingPool, MaxFailing)
    /\ current = 0
    /\ environment = EnvironmentNew
    /\ output = <<>>
    /\ pc = "idle"
    /\ executed = <<>>
    /\ outputBy = <<>>
    /\ calls = 0
    /\ lhs = Literal(Nil)
    /\ rhs = Literal(Nil)
    /\ operator = "Plus"
    /\ result = NoResult
    /\ FrontIdle

FailingNext == Run \/ RunStep \/ RunReturn

SpecFailing == FailingInit /\ [][FailingNext]_vars

----------------------------------------------------------------------------
(* the front end on source text: Scanner::scan_tokens, then                *)
(* Parser::parse_expression on the tokens                                  *)

MaxSource == 4
MaxChain == 3

\* a digit, the dot, a letter, newline, slash, quote, a character that
\* starts no token, a blank, and `=`
ScanAlphabet == {"1", ".", "a", "\n", "/", "\"", "#", " ", "="}
Sources == {<<>>} \cup SeqsUpTo(ScanAlphabet, MaxSource)

\* the binary operators with their source text
BinaryOperators == Operators \ {"Bang"}
OperatorText(op) ==
    CASE op = "BangEquals" -> <<"!", "=">>
      [] op = "EqualsEquals" -> <<"=", "=">>
      [] op = "Greater" -> <<">">>
      [] op = "GreaterEqual" -> <<">", "=">>
      [] op = "Less" -> <<"<">>
      [] op = "LessEqual" -> <<"<", "=">>
      [] op = "Minus" -> <<"-">>
      [] op = "Plus" -> <<"+">>
      [] op = "Slash" -> <<"/">>
      [] op = "Star" -> <<"*">>

\* the i-th operand of a chain: 1, 2, 4, 8, ..
Operand(i) == Pow(2, i - 1)

\* the text `1 op1 2 op2 4 ..` of a chain of operators
RECURSIVE ChainText(_)
ChainText(ops) ==
    IF ops = <<>> THEN NatText(Operand(1))
    ELSE ChainText(SubSeq(ops, 1, Len(ops) - 1))
         \o OperatorText(ops[Len(ops)]) \o NatText(Operand(Len(ops) + 1))

Chains == UNION {[1..k -> BinaryOperators] : k \in 1..MaxChain}
\* a chain as it is, with `-` before its first operand, and with `!` before
\* its last operand
ChainSources ==
    {ChainText(ops) : ops \in Chains}
    \cup {<<"-">> \o ChainText(ops) : ops \in Chains}
    \cup {ChainText(SubSeq(ops, 1, Len(ops) - 1)) \o OperatorText(ops[Len(ops)])
              \o <<"!">> \o NatText(Operand(Len(ops) + 1)) : ops \in Chains}

SampleSources ==
    { <<"t", "r", "u", "e">>, <<"n", "i", "l">>, <<"f", "a", "l", "s", "e">>,
      <<"(", "1", "+", "2", ")", "/", "4">>,
      <<"1", ".", "2", ".", "3">> }

ScanInit ==
    /\ BackIdle
    /\ rhs = Literal(Nil)
    /\ operator = "Plus"
    /\ result = NoResult
    /\ pc = "scan"
    /\ scanner \in {from_source(source) :
                       source \in Sources \cup ChainSources \cup SampleSources}
    /\ scanned = NoResult
    /\ parser = parser_new(<<>>)
    /\ parsed = NoResult

backVars == <<program, current, environment, output, executed, outputBy, calls>>

\* a loop step that drops an error and goes on scanning
ScanTokenRecovering ==
    /\ pc = "scan"
    /\ ~is_at_end(scanner)
    /\ \E r \in {scan_token(scanner)} :
           /\ scanner' = r.sc
           /\ IF r.panic THEN pc' = "panic" ELSE pc' = pc
    /\ UNCHANGED <<scanned, parser, parsed>>
    /\ UNCHANGED backVars
    /\ UNCHANGED opsVars

\* one iteration of the loop of Scanner::scan_tokens: scan_token, and `?`
\* returns its error; a panic ends the process
ScanToken ==
    /\ pc = "scan"
    /\ ~is_at_end(scanner)
    /\ \E r \in {scan_token(scanner)} :
           /\ scanner' = r.sc
           /\ IF r.panic THEN pc' = "panic" /\ scanned' = scanned
              ELSE IF r.err # NoError
                   THEN pc' = "scanned" /\ scanned' = Err(r.err)
                   ELSE pc' = pc /\ scanned' = scanned
    /\ UNCHANGED <<parser, parsed>>
    /\ UNCHANGED backVars
    /\ UNCHANGED opsVars

\* the loop of Scanner::scan_tokens ends: Ok(&self.tokens)
ScanReturn ==
    /\ pc = "scan"
    /\ is_at_end(scanner)
    /\ scanned' = Ok(scanner.tokens)
    /\ pc' = "scanned"
    /\ UNCHANGED <<scanner, parser, parsed>>
    /\ UNCHANGED backVars
    /\ UNCHANGED opsVars

\* Parser::parse_expr_from_tokens on the tokens of an Ok scan
ParseExpression ==
    /\ pc = "scanned"
    /\ scanned.type = "Ok"
    /\ \E r \in {parse_expression(parser_new(scanned.tokens))} :
           /\ parser' = r.p
           /\ IF r.ok
              THEN pc' = "parsed" /\ parsed' = [type |-> "Expression", node |-> r.node]
              ELSE pc' = "panic" /\ parsed' = Panic(r.msg)
    /\ UNCHANGED <<scanner, scanned>>
    /\ UNCHANGED backVars
    /\ UNCHANGED opsVars

ScanNext == ScanToken \/ ScanReturn \/ ParseExpression

SpecScan == ScanInit /\ [][ScanNext]_vars

\* the characters of numbers, identifiers, comments, strings, blanks and
\* two-character operators
ProgressCharacters == ScanAlphabet \ {"#", "\n"}

ScanFairInit ==
    /\ ScanInit
    /\ \A i \in 1..Len(scanner.source_chars) :
           scanner.source_chars[i] \in ProgressCharacters

\* the loop of Scanner::scan_tokens keeps running until it returns or panics
SpecScanFair == ScanFairInit /\ [][ScanNext]_vars /\ WF_vars(ScanNext)

----------------------------------------------------------------------------
(* the parser on token sequences: Parser::parse *)

MaxTokens == 4

One1 == NumberToken(Fin(FALSE, 1, 1))
TokenAlphabet ==
    { One1, IdentifierToken(x), Tok("Equals"), Tok("EqualsEquals"), Tok("Plus"),
      Tok("Bang"), Tok("SemiColon"), Paren("Left"), Paren("Right"),
      Brace("Left"), Brace("Right"), Keyword("Print"), Keyword("If") }
TokenSeqs == {<<>>} \cup SeqsUpTo(TokenAlphabet, MaxTokens)

\* Parser::new(tokens), then parse: let mut program = Program(vec![])
ParseInit ==
    /\ BackIdle
    /\ rhs = Literal(Nil)
    /\ operator = "Plus"
    /\ result = NoResult
    /\ pc = "parse"
    /\ scanner = from_source(<<>>)
    /\ scanned = NoResult
    /\ parser \in {parser_new(tokens) : tokens \in TokenSeqs}
    /\ parsed = NoResult

\* a loop step that keeps the declaration and moves the cursor to the end
ParseDeclarationOnce ==
    /\ pc = "parse"
    /\ parser.current < Len(parser.tokens)
    /\ LET r == declaration(parser)
       IN  IF r.ok
           THEN /\ parser' = [r.p EXCEPT !.current = Len(parser.tokens)]
                /\ program' = Append(program, r.node)
                /\ UNCHANGED <<pc, parsed>>
           ELSE /\ parser' = r.p
                /\ pc' = "panic"
                /\ parsed' = Panic(r.msg)
                /\ UNCHANGED program
    /\ UNCHANGED <<current, environment, output, scanner, scanned>>
    /\ UNCHANGED history
    /\ UNCHANGED opsVars

\* a loop step that parses the declaration and leaves the cursor where it
\* was
ParseDeclarationPeeking ==
    /\ pc = "parse"
    /\ parser.current < Len(parser.tokens)
    /\ LET r == declaration(parser)
       IN  IF r.ok
           THEN /\ program' = Append(program, r.node)
                /\ UNCHANGED <<pc, parsed, parser>>
           ELSE /\ parser' = r.p
                /\ pc' = "panic"
                /\ parsed' = Panic(r.msg)
                /\ UNCHANGED program
    /\ UNCHANGED <<current, environment, output, scanner, scanned>>
    /\ UNCHANGED history
    /\ UNCHANGED opsVars

\* one iteration of the loop of Parser::parse:
\* program.add_declaration(self.declaration()); a panic ends the process
ParseDeclaration ==
    /\ pc = "parse"
    /\ parser.current < Len(parser.tokens)
    /\ LET r == declaration(parser)
       IN  /\ parser' = r.p
           /\ IF r.ok
              THEN program' = Append(program, r.node) /\ UNCHANGED <<pc, parsed>>
              ELSE pc' = "panic" /\ parsed' = Panic(r.msg) /\ UNCHANGED program
    /\ UNCHANGED <<current, environment, output, scanner, scanned>>
    /\ UNCHANGED history
    /\ UNCHANGED opsVars

\* the loop of Parser::parse ends: the program is returned
ParseReturn ==
    /\ pc = "parse"
    /\ parser.current >= Len(parser.tokens)
    /\ parsed' = [type |-> "Program", declarations |-> program]
    /\ pc' = "parsed"
    /\ UNCHANGED <<program, current, environment, output, scanner, scanned, parser>>
    /\ UNCHANGED history
    /\ UNCHANGED opsVars

ParseNext == ParseDeclaration \/ ParseReturn

SpecParse == ParseInit /\ [][ParseNext]_vars

\* the tokens that open, separate and close declarations and groupings
ProgressAlphabet ==
    TokenAlphabet \ {Tok("EqualsEquals"), Tok("Plus"), Tok("Bang"), Keyword("Print")}

ParseFairInit ==
    /\ ParseInit
    /\ \A i \in 1..Len(parser.tokens) : parser.tokens[i] \in ProgressAlphabet

\* the loop of Parser::parse keeps running until it returns or panics
SpecParseFair == ParseFairInit /\ [][ParseNext]_vars /\ WF_vars(ParseNext)

\* every finite number of the state is a dyadic fraction of few digits: f32
\* arithmetic on these is exact
F32Exact(v) ==
    v.type = "Number" /\ v.n.cls = "fin" => v.n.den \in {1, 2, 4, 8} /\ v.n.num < 4096

TypeOK ==
    /\ pc \in {"idle", "run", "panic"}
    /\ current \in 0..Len(program)
    /\ Len(program) <= MaxProgram
    /\ \A n \in DOMAIN environment :
          environment[n].type \in {"Boolean", "String", "Number", "Nil", "Identifier"}
          /\ F32Exact(environment[n])
    /\ Len(outputBy) = Len(output)

----------------------------------------------------------------------------
(* properties *)

\* the lines of output written by the declaration at index i
LinesBy(i) == {j \in 1..Len(outputBy) : outputBy[j] = i}

\* C1: run executes the declarations in program order, each exactly once:
\* the k-th declaration executed is the one at index k-1, the lines of output
\* are in the order of the declarations that wrote them, every executed
\* top-level Print/Expression statement that did not abort wrote exactly one
\* line, and when run has returned every declaration has been executed.
C1_InProgramOrder ==
    /\ \A k \in 1..Len(executed) : executed[k] = k - 1
    /\ Len(executed) = (IF pc = "panic" THEN current + 1 ELSE current)
    /\ \A j \in 1..Len(outputBy) :
          /\ outputBy[j] \in 0..(Len(executed) - 1)
          /\ j < Len(outputBy) => outputBy[j] <= outputBy[j + 1]
    /\ \A i \in 0..(current - 1) :
          i < Len(program) /\ program[i + 1].type = "Statement"
              => Cardinality(LinesBy(i)) = 1
    /\ (pc = "idle" /\ executed # <<>>) => current = Len(program)

\* run has returned after executing three declarations or more, and two
\* different lines were written
C1_Witness ==
    /\ pc = "idle"
    /\ Len(executed) >= 3
    /\ \E j \in 1..Len(output) : \E k \in 1..Len(output) :
          j < k /\ output[j] # output[k] /\ outputBy[j] < outputBy[k]

\* one pass over a sequence of declarations, stopping at a panic
RECURSIVE RunAll(_, _)
RunAll(st, ds) ==
    IF ds = <<>> \/ st.panic THEN st
    ELSE RunAll(evaluate_declaration(st, Head(ds)), Tail(ds))

Fresh == [env |-> EnvironmentNew, out |-> <<>>, panic |-> FALSE]

\* C2: over any sequence of evaluate_declarations calls every submitted
\* declaration is executed once, in submission order (no call executes again
\* what an earlier call executed), and the bindings of earlier calls stay
\* visible: environment and output are those of one pass over all the
\* declarations executed so far, and a call returns only when everything
\* submitted has been executed.
C2_CallsCompose ==
    /\ \A j \in 1..Len(executed) : \A k \in 1..Len(executed) :
          j < k => executed[j] < executed[k]
    /\ \A k \in 1..Len(executed) : executed[k] < Len(program)
    /\ Len(executed) <= Len(program)
    /\ LET ref == RunAll(Fresh, SubSeq(program, 1, Len(executed)))
       IN  environment = ref.env /\ output = ref.out
    /\ (pc = "idle" /\ calls > 0) => Len(executed) = Len(program)

\* two calls of one declaration each: the first binds x, the second prints it
C2_Witness ==
    /\ pc = "idle"
    /\ calls = 2
    /\ program = <<AssignX1, PrintX>>
    /\ executed = <<0, 1>>
    /\ output = <<Line(<<"1">>)>>

Names == {x, y, z, VERSION}

\* C3: a top-level assignment `n = e;` that does not abort leaves the
\* environment equal to the previous mapping with n set to the value of e:
\* resolve(n) is that value whether or not n was bound, and resolve(m) is
\* unchanged for every other name m, bound or not.
C3_AssignIsMapUpdate ==
    [][ (/\ pc = "run"
         /\ current < Len(program)
         /\ program[current + 1].type = "VariableAssignment"
         /\ pc' = "run")
        => LET d == program[current + 1]
               v == evaluate_expression(environment, d.value)
           IN  /\ resolve(environment', d.identifier) = v
               /\ DOMAIN environment' = (DOMAIN environment) \cup {d.identifier}
               /\ \A m \in Names \ {d.identifier} :
                     resolve(environment', m) = resolve(environment, m)
      ]_vars

\* x was bound to 1 and has been assigned again: it is now 2
C3_Witness ==
    /\ Len(program) >= 2
    /\ program[1] = AssignX1
    /\ program[2] = AssignX2
    /\ current = 2
    /\ resolve(environment, x) = Number(Fin(FALSE, 2, 1))

\* declaration d holds an assignment to name n, at any nesting depth
RECURSIVE AssignsTo(_, _)
AssignsTo(d, n) ==
    CASE d.type = "VariableAssignment" -> d.identifier = n
      [] d.type = "Statement" -> FALSE
      [] d.type = "Block" ->
             \E i \in 1..Len(d.declarations) : AssignsTo(d.declarations[i], n)

Max(S) == CHOOSE m \in S : \A k \in S : k <= m

\* C4: a name that no executed declaration assigns and that the host did not
\* seed is unbound, resolves to Nil and evaluates to Nil without aborting;
\* and no step ever removes a binding.
C4_UnboundIsNil ==
    /\ [](\A n \in Names :
            (/\ n # VERSION
             /\ ~\E k \in 1..Len(executed) : AssignsTo(program[executed[k] + 1], n))
            => /\ n \notin DOMAIN environment
               /\ resolve(environment, n) = Nil
               /\ evaluate_expression(environment, Var(n)) = Nil)
    /\ [][\A n \in DOMAIN environment : n \in DOMAIN environment']_vars

\* the statement `y;` has run while y was unbound and wrote Nil
C4_Witness ==
    /\ y \notin DOMAIN environment
    /\ \E j \in 1..Len(output) :
          program[outputBy[j] + 1] = ShowY /\ output[j] = Line(<<"N", "i", "l">>)

IsPrintOf(d, n) == d = Statement(PrintStatement(Var(n)))

\* the declarations before index j that assign n
AssignersBefore(j, n) == {i \in 0..(j - 1) : AssignsTo(program[i + 1], n)}

\* C5: an identifier is resolved when its expression is evaluated: a
\* `print n;` that has run wrote the value of the latest assignment to n
\* that precedes it in the program, whenever that assignment is `n = literal;`
\* (so after x = 1; print x; x = 2; print x; the lines are 1 and 2).
C5_ResolvedWhenEvaluated ==
    \A j \in 0..(current - 1) : \A n \in Names :
        (j < Len(program) /\ IsPrintOf(program[j + 1], n)
                          /\ AssignersBefore(j, n) # {})
        => LET d == program[Max(AssignersBefore(j, n)) + 1]
           IN  (/\ d.type = "VariableAssignment"
                /\ d.value.type = "Literal"
                /\ d.value.value.type # "Identifier")
               => /\ LinesBy(j) # {}
                  /\ \A l \in LinesBy(j) : output[l] = Line(to_string(d.value.value))

\* x = 1; print x; x = 2; print x; has run and wrote 1, then 2
C5_Witness ==
    /\ program = <<AssignX1, PrintX, AssignX2, PrintX>>
    /\ current = 4
    /\ output = <<Line(<<"1">>), Line(<<"2">>)>>

\* the expressions of an expression, itself included
RECURSIVE SubExpressions(_)
SubExpressions(e) ==
    {e} \cup
    CASE e.type = "Binary" -> SubExpressions(e.left) \cup SubExpressions(e.right)
      [] e.type = "Grouping" -> SubExpressions(e.expression)
      [] e.type = "Literal" -> {}
      [] e.type = "Unary" -> SubExpressions(e.right)

\* the expressions of a declaration
RECURSIVE ExpressionsOf(_)
ExpressionsOf(d) ==
    CASE d.type = "VariableAssignment" -> SubExpressions(d.value)
      [] d.type = "Statement" -> SubExpressions(d.statement.expression)
      [] d.type = "Block" ->
             UNION {ExpressionsOf(d.declarations[i]) : i \in 1..Len(d.declarations)}

UnresolvedMessages ==
    {"Cannot subtract unresolved identifier", "Cannot add unresolved identifier",
     "Cannot add unresolved identifier to string",
     "Cannot divide unresolved identifier", "Cannot multiply unresolved identifier",
     "Unexpected unresolved identifier"}

\* C6: an Identifier is never a final value: no binding of the environment
\* holds one, and in every state every expression of the program evaluates
\* to a value that is not an Identifier, without an `unresolved identifier`
\* abort.
C6_NoIdentifierValue ==
    /\ \A n \in DOMAIN environment : environment[n].type # "Identifier"
    /\ \A i \in 1..Len(program) : \A e \in ExpressionsOf(program[i]) :
          LET v == evaluate_expression(environment, e)
          IN  /\ v.type # "Identifier"
              /\ IsPanic(v) => v.msg \notin UnresolvedMessages

\* y = x + 1; has run with x bound: y holds the value of an expression that
\* names an identifier
C6_Witness ==
    /\ x \in DOMAIN environment
    /\ y \in DOMAIN environment
    /\ \E i \in 0..(current - 1) : program[i + 1] = AssignYX1

\* a program with the declarations of every Block put in the Block's place
RECURSIVE Flatten(_)
Flatten(ds) ==
    IF ds = <<>> THEN <<>>
    ELSE (IF Head(ds).type = "Block" THEN Flatten(Head(ds).declarations)
          ELSE <<Head(ds)>>) \o Flatten(Tail(ds))

\* C7: a Block runs its declarations in order in the one flat environment:
\* environment and output are those of the same program with every Block
\* replaced by its declarations, and a `print x;` that runs after the block
\* { x = "a"; { y = x; } print y; }, with no assignment to x in between,
\* writes a.
C7_BlocksShareEnvironment ==
    /\ LET ref == RunAll(Fresh, Flatten(SubSeq(program, 1, Len(executed))))
       IN  /\ environment = ref.env
           /\ output = ref.out
           /\ (pc = "panic") = ref.panic
    /\ \A j \in 0..(current - 1) :
          (/\ j < Len(program)
           /\ IsPrintOf(program[j + 1], x)
           /\ AssignersBefore(j, x) # {}
           /\ program[Max(AssignersBefore(j, x)) + 1] = NestedBlock)
          => \A l \in LinesBy(j) : output[l] = Line(<<"a">>)

\* the nested block has run, then print x; wrote a, the value bound two
\* blocks deep is in the environment
C7_Witness ==
    /\ \E i \in 0..(current - 2) :
          /\ program[i + 1] = NestedBlock
          /\ program[i + 2] = PrintX
          /\ \E l \in LinesBy(i + 1) : output[l] = Line(<<"a">>)
    /\ resolve(environment, y) = String(<<"a">>)

BothNumbers == Lhs.type = "Number" /\ Rhs.type = "Number"

\* C8: `<=` is the negation of `>`: for Number operands a and b, a <= b
\* yields Boolean(true) exactly when a > b yields Boolean(false).
C8_LessEqualNegatesGreater ==
    (Applied /\ operator = "LessEqual" /\ BothNumbers)
    => (result = Boolean(TRUE)
        <=> evaluate_binary_expression(environment, lhs, rhs, "Greater")
                = Boolean(FALSE))

\* the pairs of operand types for which the claim says `+` succeeds
ClaimedPlusPairs ==
    {<<"Number", "Number">>, <<"String", "String">>, <<"String", "Number">>,
     <<"String", "Boolean">>, <<"String", "Nil">>, <<"Boolean", "String">>,
     <<"Nil", "String">>}

\* C9 as claimed: binary `+` succeeds exactly for the claimed pairs of operand
\* types and is a fatal error for every other pair.
C9_PlusOnlyClaimedPairs ==
    (Applied /\ operator = "Plus")
    => (~IsPanic(result) <=> <<Lhs.type, Rhs.type>> \in ClaimedPlusPairs)

\* C9, amended: binary `+` succeeds exactly for the claimed pairs and for
\* Number + String; Number + Number is the numeric sum, every other
\* successful pair is the concatenation of the string forms of the operands
\* (Nil as nil); every other pair is a fatal error.
C9_PlusPairs ==
    (Applied /\ operator = "Plus")
    => IF <<Lhs.type, Rhs.type>> \in ClaimedPlusPairs \cup {<<"Number", "String">>}
       THEN IF BothNumbers
            THEN result = Number(F32Add(Lhs.n, Rhs.n))
            ELSE result = String(to_string(Lhs) \o to_string(Rhs))
       ELSE IsPanic(result)

\* 2.5 + "a" has been evaluated and is the text 2.5a
C9_Witness ==
    /\ Applied
    /\ operator = "Plus"
    /\ Lhs = Number(Fin(FALSE, 5, 2))
    /\ Rhs = String(<<"a">>)
    /\ result = String(<<"2", ".", "5", "a">>)

StringTimesNumber ==
    \/ Lhs.type = "String" /\ Rhs.type = "Number"
    \/ Lhs.type = "Number" /\ Rhs.type = "String"
\* the text and the count of a String * Number, in either order
TheText == IF Lhs.type = "String" THEN Lhs.s ELSE Rhs.s
TheCount == IF Lhs.type = "Number" THEN Lhs.n ELSE Rhs.n
One == Fin(FALSE, 1, 1)

\* text t is text s repeated k times
IsRepeat(t, s, k) ==
    /\ Len(t) = Len(s) * k
    /\ \A i \in 1..Len(t) : t[i] = s[((i - 1) % Len(s)) + 1]

\* C10 as claimed: String * Number, in either order, never fails; it is the
\* empty string when n < 1 and the string repeated floor(n) times when n >= 1.
C10_RepeatNeverFails ==
    (Applied /\ operator = "Star" /\ StringTimesNumber)
    => /\ ~IsPanic(result)
       /\ F32Cmp(TheCount, One) = "Less" => result = String(<<>>)
       /\ (TheCount.cls = "fin" /\ F32Cmp(TheCount, One) \in {"Greater", "Equal"})
              => /\ result.type = "String"
                 /\ IsRepeat(result.s, TheText, TheCount.num \div TheCount.den)

\* C10, amended: String * Number, in either order, is the empty string when
\* n is NaN or n < 1 (zero, -0 and every negative number included), the
\* string repeated floor(n) times when n is finite and n >= 1, and for
\* n = +infinity the empty string if the string is empty and a fatal
\* `capacity overflow` otherwise.
C10_Repeat ==
    (Applied /\ operator = "Star" /\ StringTimesNumber)
    => IF TheCount.cls = "nan" \/ F32Cmp(TheCount, One) = "Less"
       THEN result = String(<<>>)
       ELSE IF TheCount.cls = "fin"
       THEN /\ result.type = "String"
            /\ IsRepeat(result.s, TheText, TheCount.num \div TheCount.den)
       ELSE IF TheText = <<>> THEN result = String(<<>>)
            ELSE result = Panic("capacity overflow")

\* "ab" * 2.5 has been evaluated and is abab
C10_Witness ==
    /\ Applied
    /\ operator = "Star"
    /\ Lhs = String(<<"a", "b">>)
    /\ Rhs = Number(Fin(FALSE, 5, 2))
    /\ result = String(<<"a", "b", "a", "b">>)

----------------------------------------------------------------------------
\* C11: unary `!` never fails on a resolved value and returns a Boolean: the
\* negation of a Boolean, true iff a String is empty, true iff a Number is
\* zero, true for Nil; so `!!v` is v for every Boolean v.
UnaryApplied == pc = "unary" /\ result # NoResult
Resolved(v) == v.type \in {"Boolean", "String", "Number", "Nil"}

C11_BangTruthTable ==
    UnaryApplied /\ operator = "Bang" /\ Resolved(Rhs) =>
        /\ result.type = "Boolean"
        /\ Rhs.type = "Boolean" => result.b = ~Rhs.b
        /\ Rhs.type = "String" => result.b = (Rhs.s = <<>>)
        /\ Rhs.type = "Number" => result.b = (Rhs.n.cls = "fin" /\ Rhs.n.num = 0)
        /\ Rhs.type = "Nil" => result.b
        /\ rhs.type = "Unary" /\ rhs.operator = "Bang"
           /\ evaluate_expression(environment, rhs.right).type = "Boolean"
           => result = evaluate_expression(environment, rhs.right)

\* `!!true` is true
C11_Witness ==
    /\ UnaryApplied /\ operator = "Bang"
    /\ rhs = Not(Literal(Boolean(TRUE)))
    /\ result = Boolean(TRUE)

----------------------------------------------------------------------------
\* C12: `==` and `!=` never fail on two resolved values and return
\* complementary Booleans; values of different variants are never equal;
\* a value equals itself.
IsEquality == Applied /\ operator \in {"EqualsEquals", "BangEquals"}
EqualsEquals == evaluate_binary_expression(environment, lhs, rhs, "EqualsEquals")
BangEquals == evaluate_binary_expression(environment, lhs, rhs, "BangEquals")
IsNaN(v) == v.type = "Number" /\ v.n.cls = "nan"

C12_Complementary ==
    IsEquality =>
        /\ result.type = "Boolean"
        /\ EqualsEquals.type = "Boolean" /\ BangEquals.type = "Boolean"
        /\ BangEquals.b = ~EqualsEquals.b
        /\ Lhs.type # Rhs.type => result.b = (operator = "BangEquals")

\* the claim as stated: every value equals itself
C12_EqualsItself ==
    /\ C12_Complementary
    /\ IsEquality /\ lhs = rhs => result.b = (operator = "EqualsEquals")

\* C12 as amended: a value equals itself unless it is the Number NaN, which
\* is unequal to itself
C12_Equality ==
    /\ C12_Complementary
    /\ IsEquality /\ lhs = rhs =>
           result.b = ((operator = "EqualsEquals") = ~IsNaN(Lhs))

\* `1 == true` is false
C12_Witness ==
    /\ Applied /\ operator = "EqualsEquals"
    /\ lhs = Num(1) /\ rhs = Literal(Boolean(TRUE))
    /\ result = Boolean(FALSE)

----------------------------------------------------------------------------
\* C13: the parser applies the precedence order unary > factor > term >
\* comparison > equality: in a parsed expression no operator is the parent of
\* an operator of a looser level unless parentheses stand between them, so
\* `1+2/4` is 1 + (2/4) and evaluates to Number(1.5).
OperatorLevel(op) ==
    CASE op \in {"BangEquals", "EqualsEquals"} -> 1
      [] op \in {"Greater", "GreaterEqual", "Less", "LessEqual"} -> 2
      [] op \in {"Minus", "Plus"} -> 3
      [] op \in {"Slash", "Star"} -> 4
Level(e) ==
    CASE e.type = "Binary" -> OperatorLevel(e.operator)
      [] e.type = "Unary" -> 5
      [] OTHER -> 6

Source == scanner.source_chars
ExpressionParsed == pc = "parsed" /\ parsed.type = "Expression"
OnePlusTwoOverFour == <<"1", "+", "2", "/", "4">>

C13_Precedence ==
    /\ ExpressionParsed =>
           \A e \in SubExpressions(parsed.node) :
               /\ e.type = "Binary" =>
                      Level(e.left) >= Level(e) /\ Level(e.right) >= Level(e)
               /\ e.type = "Unary" => Level(e.right) >= 5
    /\ Source = OnePlusTwoOverFour =>
           /\ pc \in {"scan", "scanned", "parsed"}
           /\ pc = "scanned" => scanned.type = "Ok"
           /\ pc = "parsed" =>
                  /\ parsed.node = Binary(Num(1), Binary(Num(2), Num(4), "Slash"), "Plus")
                  /\ evaluate_expression(environment, parsed.node)
                         = Number(Fin(FALSE, 3, 2))

C13_Witness ==
    /\ ExpressionParsed
    /\ Source = OnePlusTwoOverFour
    /\ parsed.node = Binary(Num(1), Binary(Num(2), Num(4), "Slash"), "Plus")

----------------------------------------------------------------------------
\* C14: binary operators of one precedence level are left-associative: a
\* chain of same-level operators parses as Binary{left: Binary{a, b, op1},
\* right: c, op2}, at every level and for every chain length.

\* the tokens are `1 op 2 op 4 ..` with operators of one level
IsChain(tokens) ==
    /\ Len(tokens) % 2 = 1 /\ Len(tokens) >= 3
    /\ \A i \in 1..Len(tokens) :
           IF i % 2 = 1 THEN tokens[i] = NumberToken(Fin(FALSE, Operand((i + 1) \div 2), 1))
           ELSE /\ tokens[i].type \in BinaryOperators
                /\ OperatorLevel(tokens[i].type) = OperatorLevel(tokens[2].type)

\* the left fold of the first k operators of a chain
RECURSIVE LeftFold(_, _)
LeftFold(tokens, k) ==
    IF k = 0 THEN Num(Operand(1))
    ELSE Binary(LeftFold(tokens, k - 1), Num(Operand(k + 1)), tokens[2 * k].type)

C14_LeftAssociative ==
    ExpressionParsed =>
        /\ \A e \in SubExpressions(parsed.node) :
               e.type = "Binary" => Level(e.right) > Level(e)
        /\ IsChain(scanned.tokens) =>
               parsed.node = LeftFold(scanned.tokens, (Len(scanned.tokens) - 1) \div 2)

\* `1-2+4-8` is ((1-2)+4)-8
C14_Witness ==
    /\ ExpressionParsed
    /\ Source = <<"1", "-", "2", "+", "4", "-", "8">>
    /\ parsed.node = Binary(Binary(Binary(Num(1), Num(2), "Minus"), Num(4), "Plus"),
                            Num(8), "Minus")

----------------------------------------------------------------------------
\* C15: parsing is all-or-nothing: parse either returns a Program after
\* consuming every token (cursor equal to the token count) or aborts with a
\* fatal error at the first structural mismatch; it never returns a Program
\* built from only a prefix of the tokens.

\* the tokens an expression is written with
RECURSIVE UnparseExpression(_)
UnparseExpression(e) ==
    CASE e.type = "Binary" ->
             UnparseExpression(e.left) \o <<Tok(e.operator)>>
                 \o UnparseExpression(e.right)
      [] e.type = "Grouping" ->
             <<Paren("Left")>> \o UnparseExpression(e.expression) \o <<Paren("Right")>>
      [] e.type = "Unary" -> <<Tok(e.operator)>> \o UnparseExpression(e.right)
      [] e.type = "Literal" ->
             (CASE e.value.type = "Boolean" ->
                       <<Keyword(IF e.value.b THEN "True" ELSE "False")>>
                [] e.value.type = "Nil" -> <<Keyword("Nil")>>
                [] e.value.type = "Number" -> <<NumberToken(e.value.n)>>
                [] e.value.type = "String" ->
                       <<StringToken(<<"\"">> \o e.value.s \o <<"\"">>)>>
                [] e.value.type = "Identifier" -> <<IdentifierToken(e.value.id)>>)

\* the tokens a declaration, and a sequence of declarations, is written with
RECURSIVE UnparseDeclaration(_), Unparse(_)
UnparseDeclaration(d) ==
    CASE d.type = "VariableAssignment" ->
             <<IdentifierToken(d.identifier), Tok("Equals")>>
                 \o UnparseExpression(d.value) \o <<Tok("SemiColon")>>
      [] d.type = "Block" ->
             <<Brace("Left")>> \o Unparse(d.declarations) \o <<Brace("Right")>>
      [] d.type = "Statement" ->
             (CASE d.statement.type = "Print" ->
                       <<Keyword("Print")>> \o UnparseExpression(d.statement.expression)
                           \o <<Tok("SemiColon")>>
                [] d.statement.type = "Expression" ->
                       UnparseExpression(d.statement.expression) \o <<Tok("SemiColon")>>
                [] d.statement.type = "If" ->
                       <<Keyword("If")>> \o UnparseExpression(d.statement.condition)
                           \o UnparseDeclaration(d.statement.declaration))
Unparse(ds) ==
    IF ds = <<>> THEN <<>> ELSE UnparseDeclaration(Head(ds)) \o Unparse(Tail(ds))

ParseReturned == pc = "parsed" /\ parsed.type = "Program"
ParseAborted == pc = "panic" /\ parsed.type = "Panic"

C15_AllOrNothing ==
    /\ pc = "parse" =>
           /\ parsed = NoResult
           /\ parser.current <= Len(parser.tokens)
           /\ Unparse(program) = SubSeq(parser.tokens, 1, parser.current)
    /\ pc = "parsed" =>
           /\ ParseReturned
           /\ parser.current = Len(parser.tokens)
           /\ parsed.declarations = program
           /\ Unparse(parsed.declarations) = parser.tokens
    /\ pc = "panic" => ParseAborted
    /\ pc # "parse" /\ parser.tokens = <<Paren("Left"), One1>> =>
           ParseAborted /\ parsed.msg = "Expected ')' after expression"
    /\ pc # "parse" /\ parser.tokens = <<One1, Tok("SemiColon"), One1>> =>
           ParseAborted /\ parsed.msg = "Expected a semicolon"
    /\ pc # "parse" /\ parser.tokens = <<Brace("Left"), One1, Tok("SemiColon")>> =>
           ParseAborted /\ parsed.msg = "TODO: Handle EOF"
    /\ pc # "parse" /\ parser.tokens = <<Tok("SemiColon")>> =>
           ParseAborted /\ parsed.msg = "Syntax error??"

\* `1; x;` is returned whole, the cursor at the token count
C15_Witness ==
    /\ ParseReturned
    /\ parser.tokens = <<One1, Tok("SemiColon"), IdentifierToken(x), Tok("SemiColon")>>
    /\ parser.current = 4
    /\ Len(parsed.declarations) = 2

----------------------------------------------------------------------------
\* C16: a declaration that begins with an identifier token is a
\* VariableAssignment exactly when the next token is `=` (a single Equals);
\* in every other case the assignment check consumes no token and the same
\* tokens are parsed as an expression statement starting at the identifier.

\* the declarations of a sequence of declarations, nested ones included
RECURSIVE DeclarationsIn(_)
DeclarationsIn(ds) ==
    IF ds = <<>> THEN {}
    ELSE LET d == Head(ds)
         IN  {d} \cup DeclarationsIn(Tail(ds)) \cup
             (CASE d.type = "Block" -> DeclarationsIn(d.declarations)
                [] d.type = "Statement" /\ d.statement.type = "If" ->
                       DeclarationsIn(<<d.statement.declaration>>)
                [] OTHER -> {})

\* the parser at the i-th token
At(i) == [parser EXCEPT !.current = i - 1]
BeginsDeclaration(i) == i \in 1..Len(parser.tokens) /\ parser.tokens[i].type = "Identifier"

C16_AssignmentOnlyBeforeEquals ==
    /\ \A d \in DeclarationsIn(program) :
           UnparseDeclaration(d)[1].type = "Identifier" =>
               IF UnparseDeclaration(d)[2] = Tok("Equals")
               THEN /\ d.type = "VariableAssignment"
                    /\ d.identifier = UnparseDeclaration(d)[1].id
               ELSE d.type = "Statement" /\ d.statement.type = "Expression"
    /\ \A i \in 1..Len(parser.tokens) :
           BeginsDeclaration(i) =>
               IF peek_nth(At(i), 1) = Tok("Equals")
               THEN declaration(At(i)).ok =>
                        /\ declaration(At(i)).node.type = "VariableAssignment"
                        /\ declaration(At(i)).node.identifier = parser.tokens[i].id
               ELSE declaration(At(i)) = expression_statement_declaration(At(i))

\* `x == 1;` is the expression statement x == 1
C16_Witness ==
    /\ ParseReturned
    /\ parser.tokens = <<IdentifierToken(x), Tok("EqualsEquals"), One1, Tok("SemiColon")>>
    /\ program = <<Statement(ExpressionStatement(Binary(Var(x), Num(1), "EqualsEquals")))>>

----------------------------------------------------------------------------
\* C17: the first lexical error (unexpected character or unterminated string)
\* aborts the scan: scan_tokens returns the error and no token sequence, not
\* even the tokens recognised before the error, and no character after the
\* offending one is scanned.
Quote == "\""
ErrReturned == scanned.type = "Err"
Unexpected == ErrReturned /\ scanned.message.message = "Unexpected character"
Unterminated == ErrReturned /\ scanned.message.message = "Unterminated string"

\* the characters scan_token accepts outside a string and a comment
Legal(char) ==
    \/ char \in {" ", "\r", "\t", "\n", "(", ")", "{", "}", ",", ".", "-", "+", "*",
                 ";", "!", "=", "<", ">", "/", Quote}
    \/ is_digit(char) \/ is_alpha(char)

\* a source without `//` has no comment: a character is outside the strings
\* when an even number of quotes precedes it
CommentFree == \A i \in 1..(Len(Source) - 1) : ~(Source[i] = "/" /\ Source[i + 1] = "/")
QuotesBefore(i) == Cardinality({j \in 1..(i - 1) : Source[j] = Quote})
Offending(i) == QuotesBefore(i) % 2 = 0 /\ ~Legal(Source[i])
Offenders == {i \in 1..Len(Source) : Offending(i)}
Min(S) == CHOOSE m \in S : \A n \in S : m <= n

C17_FirstErrorAborts ==
    /\ scanned.type = "Ok" => scanned = Ok(scanner.tokens) /\ is_at_end(scanner)
    /\ ErrReturned =>
           /\ pc = "scanned"
           /\ scanned = Err(scanned.message)
           /\ parser = parser_new(<<>>) /\ parsed = NoResult
    /\ Unexpected =>
           /\ scanner.current \in 1..Len(Source)
           /\ scanner.start = scanner.current - 1
           /\ scanned.message.char = Source[scanner.current]
           /\ ~Legal(Source[scanner.current])
    /\ Unterminated =>
           /\ Source[scanner.start + 1] = Quote
           /\ \A i \in (scanner.start + 2)..Len(Source) : Source[i] # Quote
           /\ scanner.current = Len(Source) + 1
    /\ CommentFree /\ scanned # NoResult =>
           IF Offenders # {}
           THEN Unexpected /\ scanner.current = Min(Offenders)
           ELSE IF QuotesBefore(Len(Source) + 1) % 2 = 1 THEN Unterminated
           ELSE scanned.type = "Ok"

\* `1#a`: the number is recognised, the error is returned without it, and
\* the `a` is never scanned
C17_Witness ==
    /\ Source = <<"1", "#", "a">>
    /\ scanner.tokens = <<One1>>
    /\ scanned = Err(UnexpectedCharacter("#", 1))
    /\ scanner.current = 2

----------------------------------------------------------------------------
\* C18: the line reported by an `Unexpected character` error is one plus the
\* number of newline characters that precede the offending character,
\* whatever those newlines follow or sit in (plain whitespace, a number, an
\* identifier, a `//` line comment, a string literal).
NewlinesBefore(i) == Cardinality({j \in 1..(i - 1) : Source[j] = "\n"})

C18_LineOfError ==
    Unexpected => scanned.message.line = 1 + NewlinesBefore(scanner.current)

----------------------------------------------------------------------------
\* C19: the text consumed for a numeric literal is a maximal run of digits
\* with at most one `.`, and that `.` is followed by a digit: a trailing `.`
\* is not consumed as part of the number and is left for the next token.

\* the last scan_token call started at a digit; lexeme(scanner) is its text
NumberScanned ==
    /\ scanner.current > scanner.start
    /\ scanner.start < Len(Source)
    /\ is_digit(Source[scanner.start + 1])

----------------------------------------------------------------------------
\* C20: string literal round trip: for every text s without a double quote
\* (newlines allowed), lexing "s" yields exactly one String token whose
\* payload is the source with both quotes, and parsing that token yields
\* Literal(String(s)).
IsQuoted ==
    /\ Len(Source) >= 2
    /\ Source[1] = Quote /\ Source[Len(Source)] = Quote
    /\ \A i \in 2..(Len(Source) - 1) : Source[i] # Quote
Inner == SubSeq(Source, 2, Len(Source) - 1)

C20_StringRoundTrip ==
    IsQuoted =>
        /\ pc \in {"scan", "scanned", "parsed"}
        /\ scanned # NoResult => scanned = Ok(<<StringToken(Source)>>)
        /\ pc = "parsed" =>
               /\ parsed = [type |-> "Expression", node |-> Literal(String(Inner))]
               /\ parser.current = 1

\* a text with a newline and a character that starts no token
C20_Witness ==
    /\ pc = "parsed"
    /\ Source = <<Quote, "\n", "#", Quote>>
    /\ scanned = Ok(<<StringToken(<<Quote, "\n", "#", Quote>>)>>)
    /\ parsed.node = Str(<<"\n", "#">>)

\* the declaration at index i is a top-level Print or Expression statement
IsStatementAt(i) == i < Len(program) /\ program[i + 1].type = "Statement"

\* the lines written by the declaration at index i, in order
OutputOf(i) == [k \in 1..Cardinality(LinesBy(i)) |->
                   output[CHOOSE j \in LinesBy(i) :
                              Cardinality({l \in LinesBy(i) : l <= j}) = k]]

\* C21: evaluation is read-only on the environment: a step that executes a
\* Print or an Expression statement leaves the environment as it was, so
\* every name resolves and evaluates to the same value after it as before
\* it, and two executions of the same statement with nothing but statements
\* executed in between wrote the same lines.
C21_EvaluationReadOnly ==
    /\ [][ (pc = "run" /\ IsStatementAt(current))
           => /\ environment' = environment
              /\ \A n \in Names :
                    /\ resolve(environment', n) = resolve(environment, n)
                    /\ evaluate_expression(environment', Var(n))
                           = evaluate_expression(environment, Var(n))
         ]_vars
    /\ [](\A i \in 0..(current - 1) : \A j \in 0..(current - 1) :
             (/\ i < j
              /\ j < Len(program)
              /\ program[i + 1] = program[j + 1]
              /\ \A k \in i..j : IsStatementAt(k))
             => OutputOf(i) = OutputOf(j))

\* x is bound to 1 and `print x;` has run twice in a row: both wrote 1
C21_Witness ==
    /\ resolve(environment, x) = Number(Fin(FALSE, 1, 1))
    /\ \E i \in 0..(current - 2) :
          /\ program[i + 1] = PrintX
          /\ program[i + 2] = PrintX
          /\ OutputOf(i) = <<Line(<<"1">>)>>
          /\ OutputOf(i + 1) = <<Line(<<"1">>)>>

\* the declaration the run loop is at is an assignment whose value
\* expression fails in the current environment
AssignmentFails ==
    /\ pc = "run"
    /\ current < Len(program)
    /\ program[current + 1].type = "VariableAssignment"
    /\ IsPanic(evaluate_expression(environment, program[current + 1].value))

\* C22: an assignment stores only after its value expression has been
\* evaluated: a step that executes an assignment whose value expression
\* fails leaves the environment and the output as they were and aborts the
\* run at that declaration; after an abort nothing is executed any more, so
\* the declarations behind the failing one are never executed.
C22_FailedAssignmentStoresNothing ==
    /\ [][AssignmentFails
          => /\ environment' = environment
             /\ output' = output
             /\ pc' = "panic"
             /\ current' = current]_vars
    /\ [][pc # "panic"]_vars
    /\ [](pc = "panic"
          => /\ current < Len(program)
             /\ executed = [k \in 1..(current + 1) |-> k - 1])

\* x = 1; x = -"a"; and one more declaration: the run was aborted at the
\* second declaration and x is still 1
C22_Witness ==
    /\ pc = "panic"
    /\ Len(program) = 3
    /\ program[1] = AssignX1
    /\ program[2] = AssignXNegated
    /\ current = 1
    /\ environment = assign(EnvironmentNew, x, Number(Fin(FALSE, 1, 1)))

----------------------------------------------------------------------------
\* C23: scan reports every lexical failure as an error value: scan_tokens
\* never aborts the process, it goes on until it returns Ok(tokens) or
\* Err(message), also on a source that starts with a digit and whose
\* consumed text is not a float, such as `1.2.3` or `1..`.

\* the process was aborted inside scan_tokens
ScanAborted == pc = "panic" /\ scanned = NoResult

C23_ScanReturnsAResult ==
    /\ ~ScanAborted
    /\ pc \in {"scanned", "parsed"} => scanned.type \in {"Ok", "Err"}

----------------------------------------------------------------------------
\* C24: operator positions produced by the parser are valid: in every
\* Program returned by parse each Unary node's operator is one of Bang,
\* Minus, Plus and no Binary node's operator is Bang, so evaluating any
\* expression of a parsed program never aborts with `Invalid unary operator`
\* or `Invalid binary operator`.

\* the expressions of the declarations ds of a parsed program, nested
\* declarations and sub-expressions included
ParsedExpressions(ds) ==
    UNION {CASE d.type = "VariableAssignment" -> SubExpressions(d.value)
             [] d.type = "Statement" /\ d.statement.type = "If" ->
                    SubExpressions(d.statement.condition)
             [] d.type = "Statement" -> SubExpressions(d.statement.expression)
             [] OTHER -> {}
           : d \in DeclarationsIn(ds)}

InvalidOperatorMessages == {"Invalid unary operator", "Invalid binary operator"}

C24_OperatorPositionsValid ==
    ParseReturned =>
        \A e \in ParsedExpressions(parsed.declarations) :
            /\ e.type = "Unary" => e.operator \in {"Bang", "Minus", "Plus"}
            /\ e.type = "Binary" => e.operator \in Operators \ {"Bang"}
            /\ LET v == evaluate_expression(EnvironmentNew, e)
               IN  IsPanic(v) => v.msg \notin InvalidOperatorMessages

\* `+ ! 1 ;` was parsed: a Plus and a Bang in prefix position
C24_Witness ==
    /\ ParseReturned
    /\ parser.tokens = <<Tok("Plus"), Tok("Bang"), One1, Tok("SemiColon")>>
    /\ Unary(Unary(Num(1), "Bang"), "Plus") \in ParsedExpressions(parsed.declarations)

----------------------------------------------------------------------------
\* C25: the parser consumes the tokens left to right and always makes
\* progress: no step re-orders the tokens or moves the cursor back, a call
\* of declaration at any position ends with the cursor at or behind that
\* position and, when it returns a declaration, strictly behind it, every
\* turn of the loop of parse that adds a declaration has moved the cursor
\* forward, and parse ends (it returns the program or aborts) on every token
\* sequence.
ParseEnded == pc \in {"parsed", "panic"}

C25_CursorProgress ==
    /\ [][/\ parser'.tokens = parser.tokens
          /\ parser'.current >= parser.current
          /\ program' # program => parser'.current > parser.current]_vars
    /\ [](\A i \in 1..(Len(parser.tokens) + 1) :
             LET r == declaration(At(i))
             IN  /\ r.p.tokens = parser.tokens
                 /\ r.p.current >= At(i).current
                 /\ r.ok => r.p.current > At(i).current)
    /\ [](Len(program) <= parser.current)
    /\ <>ParseEnded

\* `1 ; { }` has been parsed: two declarations, the cursor moved from 0 to
\* 2 to 4, and parse returned
C25_Witness ==
    /\ ParseReturned
    /\ parser.tokens = <<One1, Tok("SemiColon"), Brace("Left"), Brace("Right")>>
    /\ Len(parsed.declarations) = 2
    /\ parser.current = 4

----------------------------------------------------------------------------
\* C26: the scanner always terminates: a scan_token call that returns Ok
\* starts at the cursor and leaves the cursor strictly greater than it was
\* (also after the step back that ends a number or an identifier), so the
\* calls start at strictly increasing positions of the source: there is at
\* most one call per source character, and scan_tokens ends (it returns or
\* aborts) on every source.
ScanRunning == pc = "scan"

C26_ScannerProgress ==
    /\ [][(ScanRunning /\ ~is_at_end(scanner) /\ pc' = "scan")
          => /\ scanner'.start = scanner.current
             /\ scanner'.current > scanner.current
             /\ scanner'.source_chars = scanner.source_chars]_vars
    /\ [](ScanRunning /\ ~is_at_end(scanner)
          => \A r \in {scan_token(scanner)} :
                 (~r.panic /\ r.err = NoError) => r.sc.current > scanner.current)
    /\ [](ScanRunning /\ scanner.current > 0
          => scanner.start < scanner.current /\ scanner.start < Len(Source))
    /\ <>(~ScanRunning)

\* `1 a1` was scanned in three calls (a number, a blank, an identifier), each
\* ended by a step back or at the end of the source
C26_Witness ==
    /\ Source = <<"1", " ", "a", "1">>
    /\ scanned = Ok(<<NumberToken(Fin(FALSE, 1, 1)), IdentifierToken(<<"a", "1">>)>>)
    /\ scanner.start = 2
    /\ scanner.current = 4

====
